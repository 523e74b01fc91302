-------------------------- MODULE SepiaFilterProofs -------------------------
(***************************************************************************)
(* Proofs about sepia-filter: whatever call of the C library fails, every  *)
(* live block has an owner, no exit leaves one behind, and what is written *)
(* is the right picture or a beginning of it, for files of any size and    *)
(* any number of rounds of the tester.                                     *)
(***************************************************************************)
EXTENDS SepiaFilterInvariant, CommonLemmas, SequenceTheorems

-----------------------------------------------------------------------------
(* Pictures that come, stay and go                                         *)

(* The blocks of the source are two, and those of the result, if any.      *)
LEMMA Blocks2 ==
  ASSUME Pictures
  PROVE  /\ owned(source) = {source, live[source].data} /\ source # NULL
         /\ result # NULL => owned(result) = {result, live[result].data}
         /\ result = NULL => owned(result) = {}
BY BlocksAssumption DEF Pictures, Picture, owned

(* Pictures stay where no block, size or pixel count changes.              *)
LEMMA Stay ==
  ASSUME Pictures, source' = source, result' = result, DOMAIN live' = DOMAIN live,
         \A b \in DOMAIN live : /\ live'[b].width = live[b].width
                                /\ live'[b].height = live[b].height
                                /\ live'[b].data = live[b].data
                                /\ DOMAIN live'[b].px = DOMAIN live[b].px
  PROVE  Pictures'
<1>1. ASSUME NEW p, p # NULL, Picture(p), {p, live[p].data} \subseteq DOMAIN live
      PROVE  Picture(p)' /\ owned(p)' = owned(p)
  BY <1>1 DEF Picture, owned
<1>2. /\ Picture(source) /\ source # NULL
      /\ {source, live[source].data} \subseteq DOMAIN live
  BY Blocks2 DEF Pictures
<1>3. result # NULL => Picture(result) /\ {result, live[result].data} \subseteq DOMAIN live
  BY Blocks2 DEF Pictures
<1>4. owned(result)' = owned(result)
  BY <1>1, <1>3 DEF owned
<1> QED
  BY <1>1, <1>2, <1>3, <1>4 DEF Pictures

(* The loops of transform.c make a pixel for each place of the picture.    *)
LEMMA TransformedSize ==
  ASSUME Pictures, NEW how \in {"r", "c", "a"}
  PROVE  DOMAIN Transformed(how) = 0..live[source].width * live[source].height - 1
BY DEF Transformed, rotated, sepia_c, sepia_asm

(* create_image makes no picture or one apart from the source.             *)
LEMMA CreateStep ==
  ASSUME TypeOK, Pictures, result = NULL, source' = source,
         NEW how \in {"r", "c", "a"}, CreateFor(how)
  PROVE  /\ Pictures' /\ result' \in Blocks \cup {NULL}
         /\ DOMAIN live' \subseteq Blocks
<1>1. PICK w, h \in Nat : /\ Create(how, w, h)
                          /\ w * h = live[source].width * live[source].height
  BY DEF CreateFor, Pictures, Picture
<1>2. DOMAIN live = {source, live[source].data} /\ DOMAIN live \subseteq Blocks
  BY Blocks2 DEF Pictures, TypeOK
<1>3. CASE result' = NULL /\ UNCHANGED live
  BY <1>2, <1>3, Stay
<1>4. ASSUME NEW s \in FreeBlocks, NEW d \in FreeBlocks \ {s}, result' = s,
             live' = [x \in DOMAIN live \cup {s, d} |->
                        IF x = s THEN image(w, h, d)
                        ELSE IF x = d THEN pixels(Transformed(how)) ELSE live[x]]
      PROVE  Pictures' /\ result' \in Blocks /\ DOMAIN live' \subseteq Blocks
  <2>1. /\ s \in Blocks \ DOMAIN live /\ d \in Blocks \ DOMAIN live /\ s # d
        /\ s # NULL
    BY <1>4, BlocksAssumption DEF FreeBlocks
  <2>2. /\ DOMAIN live' = DOMAIN live \cup {s, d}
        /\ live'[s] = image(w, h, d) /\ live'[d] = pixels(Transformed(how))
        /\ \A x \in DOMAIN live : live'[x] = live[x]
    BY <1>4, <2>1
  <2>3. Picture(s)' /\ owned(result)' = {s, d}
    <3>1. DOMAIN live'[d].px = 0..w * h - 1
      BY <1>1, <2>2, TransformedSize DEF pixels
    <3>2. live'[s].width = w /\ live'[s].height = h /\ live'[s].data = d
      BY <2>2 DEF image
    <3> QED
      BY <1>4, <2>1, <3>1, <3>2, BlocksAssumption DEF Picture, owned
  <2>4. Picture(source)' /\ owned(source)' = {source, live[source].data}
    BY <1>2, <2>2, BlocksAssumption DEF Pictures, Picture, owned
  <2> QED
    BY <1>2, <1>4, <2>1, <2>2, <2>3, <2>4 DEF Pictures
<1> QED
  BY <1>1, <1>3, <1>4 DEF Create

(* free_image of both, or of the only one, leaves nothing.                 *)
LEMMA FreeAll ==
  ASSUME Pictures
  PROVE  /\ DOMAIN Without(owned(source) \cup owned(result)) = {}
         /\ result = NULL => DOMAIN Without(owned(source)) = {}
BY Blocks2 DEF Pictures, Without

(* from_bmp has failed and freed its image: the caller's free finds none.  *)
LEMMA ReadFailsStep ==
  ASSUME Pictures, result = NULL, ReadFails(Without(owned(source)))
  PROVE  /\ DOMAIN live' = {} /\ opened' = {} /\ pc' \in {"exited", "aborted"}
         /\ code' \in {1, code} /\ twice' \in {TRUE, twice}
<1>1. DOMAIN Without(owned(source)) = {}
  BY FreeAll
<1> QED
  BY <1>1 DEF ReadFails, Exit, Go

-----------------------------------------------------------------------------
(* The actions                                                             *)

(* main up to from_bmp, where the struct image is allocated.               *)
LEMMA StartStep ==
  ASSUME IInv, CheckArguments \/ OpenInput \/ AllocImage
  PROVE  IInv'
<1> USE DEF IInv, Exit, Go
<1>1. TypeOK'
  BY DEF TypeOK, CheckArguments, OpenInput, AllocImage, FreeBlocks, With, Memory, Early
<1>2. Memory'
  <2>1. CASE CheckArguments \/ OpenInput
    BY <2>1 DEF CheckArguments, OpenInput, Memory, Early, Loaded, Made, Writing
  <2>2. ASSUME NEW b \in FreeBlocks, source' = b, live' = With(b, image(0, 0, NULL)),
               pc = "alloc", pc' = "header", result' = result
        PROVE  Memory'
    <3>1. DOMAIN live = {} /\ result = NULL
      BY <2>2 DEF Memory, Early
    <3>2. DOMAIN live' = {b} /\ live'[b] = image(0, 0, NULL) /\ b \in Blocks
      BY <2>2, <3>1 DEF With, FreeBlocks
    <3> QED
      BY <2>2, <3>1, <3>2 DEF Memory, Early, Loaded, Made, Writing, image
  <2>3. CASE AllocImage
    BY <2>2, <2>3 DEF AllocImage, Memory, Early, Loaded, Made, Writing
  <2> QED
    BY <2>1, <2>3
<1>3. Streams'
  BY DEF CheckArguments, OpenInput, AllocImage, Streams, Reading, Writing
<1>4. pc' \notin {"free_c", "asm", "free_asm"} /\ Chosen'
  BY DEF CheckArguments, OpenInput, AllocImage, Chosen
<1> QED
  BY <1>1, <1>2, <1>3, <1>4

(* from_bmp has read the header and allocated the pixels, or nothing.      *)
LEMMA ReadHeaderStep ==
  ASSUME IInv, ReadHeader
  PROVE  IInv'
<1>1. /\ pc = "header" /\ source \in Blocks /\ live[source].data = NULL
      /\ DOMAIN live = {source} /\ result = NULL /\ TypeOK /\ source # NULL
      /\ UNCHANGED <<mode, file, pos, source, result, row, round, out>>
  BY BlocksAssumption DEF ReadHeader, IInv, Memory
<1>2. ASSUME NEW b \in FreeBlocks,
             live' = [With(b, pixels(Fresh(file.width * file.height)))
                        EXCEPT ![source] = image(file.width, file.height, b)],
             Go("seek"), UNCHANGED <<opened, twice>>
      PROVE  IInv'
  <2>1. b \in Blocks /\ b # source /\ b # NULL
    BY <1>1, BlocksAssumption DEF FreeBlocks
  <2>2. /\ DOMAIN live' = {source, b}
        /\ live'[source] = image(file.width, file.height, b)
        /\ live'[b] = pixels(Fresh(file.width * file.height))
    BY <1>1, <1>2, <2>1 DEF With
  <2>3. file.width \in Nat /\ file.height \in Nat
    BY <1>1, FilesAssumption DEF TypeOK
  <2>4. Picture(source)'
    <3>1. DOMAIN live'[b].px = 0..file.width * file.height - 1
      BY <2>2 DEF pixels, Fresh
    <3>2. /\ live'[source].width = file.width /\ live'[source].height = file.height
          /\ live'[source].data = b
      BY <2>2 DEF image
    <3> QED
      BY <1>1, <2>1, <2>3, <3>1, <3>2 DEF Picture
  <2>5. owned(source)' = {source, b} /\ owned(result)' = {}
    BY <1>1, <2>1, <2>2, BlocksAssumption DEF owned, image
  <2>6. Pictures'
    BY <1>1, <2>2, <2>4, <2>5 DEF Pictures
  <2>7. TypeOK'
    BY <1>1, <1>2, <2>1, <2>2 DEF TypeOK, Go
  <2>8. pc' = "seek"
    BY <1>2 DEF Go
  <2>9. Memory' /\ Streams' /\ Chosen'
    BY <1>1, <1>2, <2>6, <2>8
       DEF Memory, Early, Loaded, Made, Writing, IInv, Streams, Reading, Chosen
  <2> QED
    BY <2>7, <2>8, <2>9 DEF IInv
<1>3. CASE ReadFails(live)
  <2>1. /\ DOMAIN live' = {} /\ opened' = {} /\ pc' = "exited" /\ code' = 1
        /\ twice' = twice
    BY <1>1, <1>3 DEF ReadFails, Exit
  <2>2. TypeOK'
    BY <1>1, <2>1 DEF TypeOK
  <2>3. Memory' /\ Streams' /\ Chosen'
    BY <2>1 DEF Memory, Early, Loaded, Made, Writing, Streams, Reading, Chosen
  <2> QED
    BY <2>1, <2>2, <2>3 DEF IInv
<1> QED
  BY <1>2, <1>3 DEF ReadHeader

(* A failed fseek or read_row: both blocks are freed, whatever is freed    *)
(* again.                                                                  *)
LEMMA FailedRead ==
  ASSUME IInv, pc \in {"seek", "read_row"}, ReadFails(Without(owned(source))),
         UNCHANGED <<mode, file, pos, source, result, row, round, out>>
  PROVE  IInv'
<1>1. Pictures /\ result = NULL /\ TypeOK
  BY DEF IInv, Memory, Loaded
<1>2. /\ DOMAIN live' = {} /\ opened' = {} /\ pc' \in {"exited", "aborted"}
      /\ code' \in {1, code} /\ twice' \in {TRUE, twice}
  BY <1>1, ReadFailsStep
<1>3. TypeOK'
  BY <1>1, <1>2 DEF TypeOK
<1>4. Memory' /\ Streams' /\ Chosen'
  BY <1>2 DEF Memory, Early, Loaded, Made, Writing, Streams, Reading, Chosen
<1> QED
  BY <1>2, <1>3, <1>4 DEF IInv

(* The rest of from_bmp fills the pixels that it has.                      *)
LEMMA ReadStep ==
  ASSUME IInv, SeekBits \/ ReadRow \/ ReadDone
  PROVE  IInv'
<1>1. Pictures /\ result = NULL /\ TypeOK /\ pc \in {"seek", "read_row"}
  BY DEF IInv, Memory, Loaded, SeekBits, ReadRow, ReadDone
<1>2. ASSUME NEW label \in Loaded, label # "asm", Go(label), Pictures',
             DOMAIN live' = DOMAIN live, pos' \in Nat, row' \in Nat,
             UNCHANGED <<mode, file, source, result, round, twice>>,
             opened' = IF label \in Reading THEN {"in"} ELSE {},
             label = "transform" => mode # Tester
      PROVE  IInv'
  <2>1. pc' = label /\ code' = code
    BY <1>2 DEF Go
  <2>2. TypeOK'
    BY <1>1, <1>2, <2>1 DEF TypeOK, Loaded, Reading
  <2>3. Memory' /\ Streams' /\ Chosen'
    BY <1>1, <1>2, <2>1
       DEF Memory, Early, Loaded, Made, Writing, Streams, Reading, IInv, Chosen
  <2> QED
    BY <1>2, <2>1, <2>2, <2>3 DEF IInv, Loaded
<1>3. opened = {"in"}
  BY <1>1 DEF IInv, Streams, Reading
<1>4. CASE SeekBits
  <2>1. CASE ReadFails(Without(owned(source))) /\ UNCHANGED row
    BY <1>1, <1>4, <2>1, FailedRead DEF SeekBits
  <2>2. CASE Go("read_row") /\ row' = 0 /\ UNCHANGED <<opened, live, twice>>
    <3>1. Pictures'
      BY <1>1, <1>4, <2>2, Stay DEF SeekBits
    <3>2. pos' \in Nat
      BY <1>1, <1>4 DEF SeekBits, TypeOK
    <3> QED
      BY <1>2, <1>3, <1>4, <2>2, <3>1, <3>2 DEF SeekBits, Loaded, Reading
  <2> QED
    BY <1>4, <2>1, <2>2 DEF SeekBits
<1>5. CASE ReadDone
  <2>1. Pictures'
    BY <1>1, <1>5, Stay DEF ReadDone
  <2>2. pos' \in Nat /\ row' \in Nat
    BY <1>1, <1>5 DEF ReadDone, TypeOK
  <2> QED
    BY <1>2, <1>5, <2>1, <2>2 DEF ReadDone, Loaded, Reading
<1>6. CASE ReadRow
  <2> DEFINE data == live[source].data
  <2>1. CASE ReadFails(Without(owned(source))) /\ UNCHANGED <<pos, row>>
    BY <1>1, <1>6, <2>1, FailedRead DEF ReadRow
  <2>2. ASSUME NEW px, DOMAIN px = DOMAIN live[data].px,
               live' = [live EXCEPT ![data].px = px],
               pos' = pos + 3 * file.width + calc_padding(file.width),
               row' = row + 1, UNCHANGED <<pc, code, opened, twice>>
        PROVE  IInv'
    <3>1. pc = "read_row" /\ UNCHANGED <<mode, file, source, result, round, out>>
      BY <1>6 DEF ReadRow
    <3>2. data \in DOMAIN live
      BY <1>1, Blocks2 DEF Pictures
    <3> HIDE DEF data
    <3>3. /\ DOMAIN live' = DOMAIN live
          /\ live'[data] = [live[data] EXCEPT !.px = px]
          /\ \A b \in DOMAIN live \ {data} : live'[b] = live[b]
      BY <2>2, <3>2
    <3>4. Pictures'
      BY <1>1, <2>2, <3>1, <3>3, Stay
    <3>5. calc_padding(file.width) \in Nat /\ file.width \in Nat
      BY <1>1, FilesAssumption DEF TypeOK, calc_padding
    <3>6. pos' \in Nat /\ row' \in Nat
      BY <1>1, <2>2, <3>5 DEF TypeOK
    <3> QED
      BY <1>2, <1>3, <2>2, <3>1, <3>3, <3>4, <3>6 DEF Go, Loaded, Reading
  <2> QED
    BY <1>6, <2>1, <2>2 DEF ReadRow
<1> QED
  BY <1>4, <1>5, <1>6

(* transform.c makes a picture, of main's choice or of the tester's rounds.*)
LEMMA TransformStep ==
  ASSUME IInv, Transform \/ RoundC \/ RoundAsm
  PROVE  IInv'
<1>1. /\ Pictures /\ result = NULL /\ TypeOK
      /\ pc \in {"transform", "round", "asm"} /\ opened = {}
  BY DEF IInv, Memory, Loaded, Transform, RoundC, RoundAsm, Streams, Reading, Writing
<1>2. UNCHANGED <<mode, file, pos, opened, source, row, round, twice, out>>
  BY DEF Transform, RoundC, RoundAsm
<1>3. \E how \in {"r", "c", "a"} : CreateFor(how)
  <2>1. CASE Transform
    <3>1. mode \in {"r", "c", "a"}
      BY <2>1 DEF IInv, Transform, Chosen, Tester
    <3> QED
      BY <2>1, <3>1 DEF Transform
  <2>2. CASE RoundC \/ RoundAsm
    BY <2>2 DEF RoundC, RoundAsm
  <2> QED
    BY <2>1, <2>2
<1>4. Pictures' /\ result' \in Blocks \cup {NULL} /\ DOMAIN live' \subseteq Blocks
  BY <1>1, <1>2, <1>3, CreateStep
<1>5. /\ pc' \in {"transformed", "free_c", "free_asm"} /\ code' = code
      /\ pc' # "transformed" => round < Iterations
  BY DEF Transform, RoundC, RoundAsm, Go, IInv, rounds_left
<1>6. TypeOK'
  BY <1>1, <1>2, <1>4, <1>5 DEF TypeOK
<1>7. Memory' /\ Streams' /\ Chosen'
  BY <1>1, <1>2, <1>4, <1>5
     DEF IInv, Memory, Early, Loaded, Made, Writing, Streams, Reading, Chosen
<1> QED
  BY <1>2, <1>5, <1>6, <1>7 DEF IInv

(* A return of main or run_tester that frees all it has.                   *)
LEMMA ExitStep ==
  ASSUME TypeOK, NEW c \in {0, 1}, Exit(c), DOMAIN live' = {}, opened' = {},
         row' \in Nat,
         UNCHANGED <<mode, file, pos, source, result, round, twice>>
  PROVE  IInv'
<1>1. pc' = "exited" /\ code' = c
  BY DEF Exit
<1>2. TypeOK'
  BY <1>1 DEF TypeOK
<1>3. Memory' /\ Streams' /\ Chosen'
  BY <1>1 DEF Memory, Early, Loaded, Made, Writing, Streams, Reading, Chosen
<1> QED
  BY <1>1, <1>2, <1>3 DEF IInv

(* to_bmp, and the returns of main.                                        *)
LEMMA WriteStep ==
  ASSUME IInv,
         TransformFails \/ OpenOutput \/ WriteHeader \/ WriteRow \/ WriteDone
  PROVE  IInv'
<1>1. Pictures /\ TypeOK /\ pc \in {"transformed"} \cup Writing
  BY DEF IInv, Memory, Made, Writing, TransformFails, OpenOutput, WriteHeader,
     WriteRow, WriteDone
<1>2. UNCHANGED <<mode, file, pos, source, result, round, twice>>
  BY DEF TransformFails, OpenOutput, WriteHeader, WriteRow, WriteDone
<1>3. row' \in Nat
  BY <1>1 DEF TypeOK, TransformFails, OpenOutput, WriteHeader, WriteRow, WriteDone
<1>4. ASSUME NEW c \in {0, 1}, Exit(c), FreeBoth, opened' = {} PROVE IInv'
  BY <1>1, <1>2, <1>3, <1>4, FreeAll, ExitStep DEF FreeBoth
<1>5. CASE TransformFails
  <2>1. opened' = {}
    BY <1>5 DEF TransformFails, IInv, Streams, Reading, Writing
  <2>2. Exit(1) /\ DOMAIN live' = {}
    BY <1>1, <1>5, FreeAll DEF TransformFails, free_image
  <2> QED
    BY <1>1, <1>2, <1>3, <2>1, <2>2, ExitStep
<1>6. ASSUME UNCHANGED live, pc' \in Writing, code' = code, opened' = {"out"},
             result # NULL
      PROVE  IInv'
  <2>1. Pictures'
    BY <1>1, <1>2, <1>6, Stay
  <2>2. TypeOK'
    BY <1>1, <1>2, <1>3, <1>6 DEF TypeOK, Writing
  <2>3. Memory' /\ Streams' /\ Chosen'
    BY <1>1, <1>2, <1>6, <2>1
       DEF IInv, Memory, Early, Loaded, Made, Writing, Streams, Reading, Chosen
  <2> QED
    BY <1>6, <2>2, <2>3 DEF IInv, Writing
<1>7. CASE OpenOutput
  BY <1>4, <1>6, <1>7 DEF OpenOutput, WriteFails, Go, Writing
<1>8. CASE WriteHeader \/ WriteRow \/ WriteDone
  <2>1. opened = {"out"} /\ result # NULL /\ pc \in Writing
    BY <1>8 DEF WriteHeader, WriteRow, WriteDone, IInv, Memory, Streams, Reading, Writing
  <2> QED
    BY <1>4, <1>6, <1>8, <2>1
       DEF WriteHeader, WriteRow, WriteDone, WriteFails, Go, Writing
<1> QED
  BY <1>5, <1>7, <1>8

(* The tester frees the picture of a round, and at the end its own.        *)
LEMMA RoundStep ==
  ASSUME IInv, FreeRound \/ TesterDone
  PROVE  IInv'
<1>1. Pictures /\ TypeOK /\ opened = {}
  BY DEF IInv, Memory, Loaded, Made, FreeRound, TesterDone, Streams, Reading, Writing
<1>2. CASE FreeRound
  <2>1. /\ live' = Without(owned(result)) /\ result' = NULL /\ source' = source
        /\ UNCHANGED <<mode, file, pos, opened, source, row, twice, out>>
    BY <1>2 DEF FreeRound, free_image
  <2>2. DOMAIN live' = owned(source) /\ \A b \in owned(source) : live'[b] = live[b]
    <3>1. owned(source) \cap owned(result) = {}
      BY <1>1, Blocks2 DEF Pictures
    <3> QED
      BY <1>1, <2>1, <3>1 DEF Pictures, Without
  <2>3. Pictures'
    <3>1. owned(source) = {source, live[source].data} /\ source # NULL
      BY <1>1, Blocks2
    <3>2. Picture(source)' /\ owned(source)' = owned(source)
      BY <1>1, <2>1, <2>2, <3>1 DEF Pictures, Picture, owned
    <3>3. owned(result)' = {}
      BY <2>1 DEF owned
    <3> QED
      BY <2>1, <2>2, <3>2, <3>3 DEF Pictures
  <2>4. /\ code' = code
        /\ \/ pc' = "asm" /\ round' = round
           \/ pc' = "round" /\ round' = round + 1
    BY <1>2 DEF FreeRound, Go
  <2>5. round < Iterations /\ round' \in 0..Iterations
    BY <1>1, <1>2, <2>4, BoundsAssumption DEF FreeRound, IInv, TypeOK
  <2>6. TypeOK'
    <3>1. DOMAIN live' \subseteq Blocks
      BY <1>1, <2>2 DEF Pictures, TypeOK
    <3> QED
      BY <1>1, <2>1, <2>4, <2>5, <3>1 DEF TypeOK
  <2>7. Memory' /\ Streams' /\ Chosen'
    BY <1>1, <1>2, <2>1, <2>3, <2>4
       DEF IInv, FreeRound, Memory, Early, Loaded, Made, Writing, Streams, Reading, Chosen
  <2> QED
    BY <2>4, <2>5, <2>6, <2>7 DEF IInv
<1>3. CASE TesterDone
  <2>1. result = NULL /\ live' = Without(owned(source))
    BY <1>3 DEF TesterDone, IInv, Memory, Loaded, free_image
  <2>2. DOMAIN live' = {}
    BY <1>1, <2>1, FreeAll
  <2>3. row' \in Nat
    BY <1>1, <1>3 DEF TesterDone, TypeOK
  <2> QED
    BY <1>1, <1>3, <2>2, <2>3, ExitStep DEF TesterDone
<1> QED
  BY <1>2, <1>3

-----------------------------------------------------------------------------
(* The theorems                                                            *)

(* Every block has its owner at every place of the programs.               *)
THEOREM Invariance == Spec => []IInv
<1>1. Init => IInv
  <2> SUFFICES ASSUME Init PROVE IInv
    OBVIOUS
  <2>1. TypeOK
    <3>1. DOMAIN live = {} /\ 0 \in 0..Iterations
      BY BoundsAssumption DEF Init
    <3> QED
      BY <3>1 DEF Init, TypeOK
  <2>2. Memory /\ Streams /\ Chosen
    BY DEF Init, Memory, Early, Loaded, Made, Writing, Streams, Reading, Chosen
  <2> QED
    BY <2>1, <2>2 DEF Init, IInv
<1>2. IInv /\ [Next]_vars => IInv'
  <2> SUFFICES ASSUME IInv, [Next]_vars PROVE IInv'
    OBVIOUS
  <2>1. CASE UNCHANGED vars
    <3>1. Pictures => Pictures'
      BY <2>1, Stay DEF vars
    <3>2. TypeOK'
      BY <2>1 DEF vars, IInv, TypeOK
    <3> QED
      BY <2>1, <3>1, <3>2 DEF vars, IInv, Memory, Streams, Chosen
  <2> QED
    BY <2>1, StartStep, ReadHeaderStep, ReadStep, TransformStep, WriteStep,
       RoundStep DEF Next
<1> QED
  BY <1>1, <1>2, PTL DEF Spec

(* Live blocks are the two pictures' own, and each has room for its sizes. *)
THEOREM Owned == Spec => []ImagesOwned
<1>1. IInv => ImagesOwned
  <2> SUFFICES ASSUME IInv PROVE ImagesOwned
    OBVIOUS
  <2>1. CASE pc \in {"start", "open_in", "alloc"}
    BY <2>1 DEF IInv, Memory, Early, Loaded, ImagesOwned, owned
  <2>2. CASE pc = "header"
    BY <2>2, BlocksAssumption DEF IInv, Memory, Loaded, ImagesOwned, owned
  <2>3. CASE pc \in Loaded \cup Made
    BY <2>3 DEF IInv, Memory, Loaded, Made, Writing, ImagesOwned, Pictures, Picture, owned
  <2>4. CASE pc \in {"exited", "aborted"}
    BY <2>4 DEF IInv, ImagesOwned
  <2> QED
    BY <2>1, <2>2, <2>3, <2>4 DEF IInv, TypeOK, Loaded, Made, Writing
<1> QED
  BY <1>1, Invariance, PTL

(* No return of main or run_tester leaves a block or a stream behind,      *)
(* whatever has failed on the way.                                         *)
THEOREM ExitClean == Spec => []ExitFreesAll
<1>1. IInv => ExitFreesAll
  BY DEF IInv, Memory, Streams, Reading, Writing, ExitFreesAll
<1> QED
  BY <1>1, Invariance, PTL

-----------------------------------------------------------------------------
(* What the right output is, part by part                                  *)

(* A row of a file is its pixels and the padding.                          *)
LEMMA StrideIs ==
  ASSUME NEW w \in Nat
  PROVE  /\ Stride(w) = 3 * w + calc_padding(w) /\ calc_padding(w) \in 0..3
         /\ Stride(w) \in Nat
<1> DEFINE P(n) == n \in 3 * w .. 3 * w + 3 /\ n % 4 = 0
<1>1. calc_padding(w) \in 0..3 /\ P(3 * w + calc_padding(w))
  BY DEF calc_padding
<1>2. \A n, m : P(n) /\ P(m) => n = m
  OBVIOUS
<1>3. Stride(w) = 3 * w + calc_padding(w)
  BY <1>1, <1>2 DEF Stride
<1> QED
  BY <1>1, <1>3

LEMMA RightSizes ==
  ASSUME TypeOK
  PROVE  /\ file.width \in Nat /\ file.height \in Nat
         /\ Width \in Nat /\ Height \in Nat
         /\ Stride(Width) = 3 * Width + calc_padding(Width)
         /\ Stride(Width) \in Nat /\ calc_padding(Width) \in 0..3
         /\ Stride(file.width) \in Nat
         /\ Height * Stride(Width) \in Nat
         /\ Total = 1 + Height * Stride(Width) /\ Total \in Nat
<1>1. file.width \in Nat /\ file.height \in Nat
  BY FilesAssumption DEF TypeOK
<1>2. Width \in Nat /\ Height \in Nat
  BY <1>1 DEF Width, Height
<1>3. Stride(Width) \in Nat
  BY <1>2, StrideIs
<1>4. Height * Stride(Width) \in Nat
  BY <1>2, <1>3
<1> QED
  BY <1>1, <1>2, <1>3, <1>4, StrideIs DEF Total

(* What Expected says, place by place: c counts the bytes of a row.        *)
LEMMA RightIs ==
  ASSUME TypeOK
  PROVE  /\ Len(Expected) = Total
         /\ Expected[1] = <<Width, Height, Height * Stride(Width)>>
         /\ \A r \in 0..Height - 1, c \in 0..Stride(Width) - 1 :
              Expected[2 + r * Stride(Width) + c] =
                IF c < 3 * Width THEN PixelAt(r, c \div 3)[(c % 3) + 1] ELSE Zero
<1> DEFINE S == Stride(Width)
           n == Height * Stride(Width)
           cell(i) == IF i % S < 3 * Width
                      THEN PixelAt(i \div S, (i % S) \div 3)[((i % S) % 3) + 1]
                      ELSE Zero
           first == <<Width, Height, Height * Stride(Width)>>
           body == [i \in 1..n |-> cell(i - 1)]
           Parts == {first} \cup {cell(i) : i \in Nat}
<1>1. n \in Nat /\ Total = 1 + n /\ S \in Nat /\ Height \in Nat
  BY RightSizes
<1>2. Expected = <<first>> \o body
  BY DEF Expected
<1> HIDE DEF cell, n, S, first
<1>3. body \in Seq(Parts) /\ Len(body) = n
  BY <1>1
<1>4. <<first>> \in Seq(Parts)
  OBVIOUS
<1>5. Len(Expected) = Total /\ Expected[1] = first
  BY <1>1, <1>2, <1>3, <1>4
<1>6. \A i \in 1..n : Expected[1 + i] = cell(i - 1)
  BY <1>1, <1>2, <1>3, <1>4
<1>7. ASSUME NEW r \in 0..Height - 1, NEW c \in 0..S - 1
      PROVE  Expected[2 + r * S + c] =
               IF c < 3 * Width THEN PixelAt(r, c \div 3)[(c % 3) + 1] ELSE Zero
  <2> DEFINE i == r * S + c
  <2>1. i \in 0..n - 1
    <3>1. S * Height = n
      BY <1>1, RightSizes DEF n, S
    <3> QED
      BY <1>1, <3>1, CellIndex
  <2>2. i \div S = r /\ i % S = c
    BY <1>1, RowAndColumn
  <2> HIDE DEF i
  <2>3. Expected[1 + (i + 1)] = cell(i)
    BY <1>1, <1>6, <2>1
  <2>4. 1 + (i + 1) = 2 + r * S + c
    BY <1>1, <2>1 DEF i
  <2> QED
    BY <2>2, <2>3, <2>4 DEF cell
<1> QED
  BY <1>5, <1>7 DEF S, first

(* Which parts of the output the vector code smears.                       *)
LEMMA SmearedIs ==
  ASSUME TypeOK, NEW r \in 0..Height - 1, NEW c \in 0..3 * Width - 1,
         Vague(r * Width + (c \div 3), (c % 3) + 1)
  PROVE  Smeared(2 + r * Stride(Width) + c)
<1> DEFINE S == Stride(Width)
           n == 2 + r * S + c
<1>1. S \in Nat /\ 3 * Width <= S /\ Width \in Nat /\ r \in Nat /\ c \in 0..S - 1
  BY RightSizes
<1>2. r * S \in Nat
  BY <1>1
<1>3. n - 2 = r * S + c /\ n > 1
  BY <1>1, <1>2
<1>4. (n - 2) \div S = r /\ (n - 2) % S = c
  BY <1>1, <1>3, RowAndColumn
<1> HIDE DEF n
<1>5. mode = "a" /\ c < 3 * Width
  BY <1>1 DEF Vague
<1>6. Smeared(n)
  BY <1>3, <1>4, <1>5 DEF Smeared
<1> QED
  BY <1>6 DEF n

(* What the mode and the file decide does not change.                      *)
LEMMA SameInput ==
  ASSUME UNCHANGED <<mode, file>>
  PROVE  /\ Width' = Width /\ Height' = Height /\ Total' = Total
         /\ \A r, c : PixelAt(r, c)' = PixelAt(r, c)
         /\ \A k, i : Vague(k, i)' <=> Vague(k, i)
         /\ \A n : Smeared(n)' <=> Smeared(n)
         /\ Expected' = Expected /\ (Asked' <=> Asked)
<1>1. Width' = Width /\ Height' = Height
  BY DEF Width, Height
<1>2. \A r, c : PixelAt(r, c)' = PixelAt(r, c)
  BY DEF PixelAt
<1>3. Total' = Total /\ (Asked' <=> Asked)
  BY <1>1 DEF Total, Asked
<1>4. \A k, i : Vague(k, i)' <=> Vague(k, i)
  BY <1>1 DEF Vague
<1>5. \A n : Smeared(n)' <=> Smeared(n)
  BY <1>1, <1>4 DEF Smeared
<1>6. Expected' = Expected
  BY DEF Expected, PixelAt, Width, Height
<1> QED
  BY <1>1, <1>2, <1>3, <1>4, <1>5, <1>6

LEMMA SameOutput ==
  ASSUME UNCHANGED <<mode, file, out>>
  PROVE  \A n : Agrees(n)' <=> Agrees(n)
  BY SameInput DEF Agrees

(* Nothing written agrees.                                                 *)
LEMMA NoneWritten == out = << >> => Agrees(0)
  BY DEF Agrees

(* A function on the first n numbers is a sequence.                        *)
LEMMA IsSequence ==
  ASSUME NEW n \in Nat, NEW s, s = [i \in 1..n |-> s[i]],
         NEW S, \A i \in 1..n : s[i] \in S
  PROVE  s \in Seq(S) /\ Len(s) = n
<1>1. [i \in 1..n |-> s[i]] \in Seq(S) /\ Len([i \in 1..n |-> s[i]]) = n
  OBVIOUS
<1> QED
  BY <1>1, Zenon

LEMMA LenIs ==
  ASSUME NEW n \in Nat, NEW s, s = [i \in 1..n |-> s[i]]
  PROVE  Len(s) = n /\ DOMAIN s = 1..n
<1> DEFINE S == {s[i] : i \in 1..n}
<1>1. \A i \in 1..n : s[i] \in S
  OBVIOUS
<1> HIDE DEF S
<1>2. s \in Seq(S) /\ Len(s) = n
  BY <1>1, IsSequence
<1> QED
  BY <1>2

(* Its beginnings.                                                         *)
LEMMA StartIs ==
  ASSUME NEW n \in Nat, NEW s, s = [i \in 1..n |-> s[i]], NEW m \in 0..n
  PROVE  SubSeq(s, 1, m) = [i \in 1..m |-> s[i]]
<1> DEFINE S == {s[i] : i \in 1..n}
<1>1. \A i \in 1..n : s[i] \in S
  OBVIOUS
<1> HIDE DEF S
<1>2. /\ SubSeq(s, 1, m) \in Seq(S)
      /\ Len(SubSeq(s, 1, m)) = m
      /\ \A i \in 1..m : SubSeq(s, 1, m)[i] = s[i]
  BY <1>1, SubSeqProperties
<1> QED
  BY <1>2, LenProperties

(* Writing what comes next agrees further on.                              *)
LEMMA Longer ==
  ASSUME TypeOK, UNCHANGED <<mode, file>>, NEW n \in Nat, NEW m \in Nat, Agrees(n),
         NEW part, part = [i \in 1..m |-> part[i]],
         \A i \in 1..m : Smeared(n + i) \/ part[i] = Expected[n + i],
         out' = out \o part
  PROVE  Agrees(n + m)'
<1> DEFINE Parts == {out[i] : i \in 1..n} \cup {part[i] : i \in 1..m}
<1>1. out \in Seq(Parts) /\ Len(out) = n
  <2>1. out = [i \in 1..n |-> out[i]]
    BY DEF Agrees
  <2>2. \A i \in 1..n : out[i] \in Parts
    OBVIOUS
  <2> HIDE DEF Parts
  <2> QED
    BY <2>1, <2>2, IsSequence
<1>2. part \in Seq(Parts) /\ Len(part) = m
  BY IsSequence
<1> HIDE DEF Parts
<1>3. out' \in Seq(Parts) /\ Len(out') = n + m
  BY <1>1, <1>2
<1>4. out' = [i \in 1..n + m |-> out'[i]]
  BY <1>3, LenProperties
<1>5. ASSUME NEW i \in 1..n + m
      PROVE  Smeared(i) \/ out'[i] = Expected[i]
  <2>1. CASE i <= n
    <3>1. out'[i] = out[i] /\ i \in 1..n
      BY <1>1, <1>2, <2>1
    <3> QED
      BY <3>1 DEF Agrees
  <2>2. CASE i > n
    <3>1. out'[i] = part[i - n] /\ i - n \in 1..m /\ n + (i - n) = i
      BY <1>1, <1>2, <2>2
    <3> QED
      BY <3>1
  <2>3. i <= n \/ i > n
    OBVIOUS
  <2> QED
    BY <2>1, <2>2, <2>3, Zenon
<1> QED
  BY <1>4, <1>5, SameInput, Zenon DEF Agrees

-----------------------------------------------------------------------------
(* The loops of transform.c                                                *)

(* The loops of rotate write each pixel of the result once: what place     *)
(* (r, c) gets was in column r, c rows from the bottom.                    *)
LEMMA RotatedIs ==
  ASSUME NEW w \in Nat, NEW h \in Nat, NEW px, NEW r \in 0..w - 1, NEW c \in 0..h - 1
  PROVE  rotated(w, h, px)[r * h + c] = px[(h - 1 - c) * w + r]
<1> DEFINE writes == {<<dest_idx(w, h, i, j), i * w + j>> : i \in 0..h - 1, j \in 0..w - 1}
           k == r * h + c
<1>1. k \in 0..w * h - 1
  <2>1. k \in 0..h * w - 1 /\ h * w = w * h
    BY CellIndex
  <2> QED
    BY <2>1
<1>2. <<k, (h - 1 - c) * w + r>> \in writes
  <2>1. h - 1 - c \in 0..h - 1 /\ r \in Nat /\ c \in Nat
    OBVIOUS
  <2>2. r * h \in Nat /\ h - (h - 1 - c) - 1 = c
    BY <2>1
  <2>3. dest_idx(w, h, h - 1 - c, r) = k
    BY <2>1, <2>2 DEF dest_idx
  <2> QED
    BY <2>1, <2>3
<1>3. ASSUME NEW wr \in writes, wr[1] = k PROVE wr[2] = (h - 1 - c) * w + r
  <2>1. PICK i \in 0..h - 1, j \in 0..w - 1 : wr = <<dest_idx(w, h, i, j), i * w + j>>
    OBVIOUS
  <2>2. j \in Nat /\ h - i - 1 \in 0..h - 1 /\ j * h \in Nat
    OBVIOUS
  <2>3. j * h + (h - i - 1) = r * h + c
    <3>1. (h - i - 1) + j * h = k
      BY <1>3, <2>1 DEF dest_idx
    <3> QED
      BY <2>2, <3>1
  <2>4. j = r /\ h - i - 1 = c
    BY <2>2, <2>3, CellOnce
  <2>5. i = h - 1 - c
    BY <2>4
  <2> QED
    BY <2>1, <2>4, <2>5
<1>4. rotated(w, h, px) = [x \in 0..w * h - 1 |->
                             IF \E wr \in writes : wr[1] = x
                             THEN px[(CHOOSE wr \in writes : wr[1] = x)[2]]
                             ELSE <<Undefined, Undefined, Undefined>>]
  BY DEF rotated
<1> HIDE DEF writes, k
<1>5. \E wr \in writes : wr[1] = k
  BY <1>2
<1>6. rotated(w, h, px)[k] = px[(CHOOSE wr \in writes : wr[1] = k)[2]]
  BY <1>1, <1>4, <1>5, Zenon
<1>7. /\ (CHOOSE wr \in writes : wr[1] = k) \in writes
      /\ (CHOOSE wr \in writes : wr[1] = k)[1] = k
  BY <1>5
<1> QED
  BY <1>3, <1>6, <1>7 DEF k

(* sepia_pixel makes the sepia of the pixel it is given.                   *)
LEMMA SepiaIs ==
  ASSUME NEW n, NEW i \in 1..3
  PROVE  /\ sepia_pixel(Pixel(Read, n))[i] = Sepia(Channels[i], n)
         /\ Sepia1(Channels[i], Pixel(Read, n)) = Sepia(Channels[i], n)
         /\ Pixel(Sepia, n)[i] = Sepia(Channels[i], n)
<1>1. Pixel(Read, n)[1] = <<"file", "b", n>>
  BY DEF Pixel, Read, Channels
<1>2. Sepia1(Channels[i], Pixel(Read, n)) = Sepia(Channels[i], n)
  BY <1>1 DEF Sepia1
<1> QED
  BY <1>2 DEF sepia_pixel, Pixel

(* And so does the vector code with the first four bytes of each group of  *)
(* pixels, and with the pixels that are left.                              *)
LEMMA AsmIs ==
  ASSUME NEW total \in Nat, NEW k \in 0..total - 1, NEW px, k \in DOMAIN px,
         NEW n, px[k] = Pixel(Read, n), NEW i \in 1..3,
         k < vector_pixels(total) => 3 * (k % 4) + i - 1 < 4
  PROVE  sepia_asm(px, total)[k][i] = Sepia(Channels[i], n)
<1>1. CASE ~(k < vector_pixels(total))
  <2>1. sepia_asm(px, total)[k] = sepia_pixel(px[k])
    BY <1>1 DEF sepia_asm
  <2> QED
    BY <2>1, SepiaIs
<1>2. CASE k < vector_pixels(total)
  <2> DEFINE m == 3 * (k % 4) + i - 1
             first == k - (k % 4)
  <2>1. sepia_asm(px, total)[k][i] = helper_byte(px, first, m)
    BY <1>2 DEF sepia_asm
  <2>2. k % 4 \in 0..3 /\ k \in Nat
    OBVIOUS
  <2>3. m \in 0..3
    BY <1>2, <2>2
  <2>4. m \div 4 = 0 /\ m % 4 = m
    BY <2>3
  <2>5. /\ m = 3 => k % 4 = 1 /\ i = 1
        /\ m # 3 => k % 4 = 0 /\ i = m + 1
    <3>1. \A q \in 0..3 : 3 * q + i - 1 \in 0..3 =>
            /\ 3 * q + i - 1 = 3 => q = 1 /\ i = 1
            /\ 3 * q + i - 1 # 3 => q = 0 /\ i = (3 * q + i - 1) + 1
      OBVIOUS
    <3> QED
      BY <2>2, <2>3, <3>1
  <2>6. first + Patterns[1][m + 1] = k
    <3>1. Patterns[1][m + 1] = k % 4
      BY <2>2, <2>3, <2>5 DEF Patterns
    <3> QED
      BY <2>2, <3>1
  <2>7. (m % 3) + 1 = i
    <3>1. CASE m = 3
      BY <2>5, <3>1
    <3>2. CASE m # 3
      <4>1. m \in 0..2
        BY <2>3, <3>2
      <4>2. m % 3 = m
        BY <4>1
      <4> QED
        BY <2>5, <3>2, <4>2
    <3> QED
      BY <3>1, <3>2
  <2> HIDE DEF m
  <2>8. helper_byte(px, first, m) = Sepia1(Channels[i], px[k])
    <3>0. first \in Int /\ 2 * 0 = 0
      BY <2>2
    <3>1. first + 2 * (m \div 4) + Patterns[(m \div 4) + 1][(m % 4) + 1] = k
      <4> HIDE DEF first
      <4> QED
        BY <2>4, <2>6, <3>0
    <3> HIDE DEF first
    <3> QED
      BY <2>7, <3>1, Zenon DEF helper_byte
  <2> QED
    BY <2>1, <2>8, SepiaIs
<1> QED
  BY <1>1, <1>2

(* What from_bmp has read when it returns.                                 *)
LEMMA ReadIs ==
  ASSUME IInv, PInv, pc = "transform"
  PROVE  LET im == live[source]  px == live[im.data].px
             w == file.width     h == file.height
         IN  /\ im.width = w /\ im.height = h
             /\ DOMAIN px = 0..w * h - 1
             /\ \A r \in 0..h - 1, c \in 0..w - 1 :
                  px[r * w + c] = Pixel(Read, r * Stride(w) + 3 * c)
<1>1. live[source].width = file.width /\ live[source].height = file.height
  BY DEF PInv, ReadSoFar
<1>2. DOMAIN live[live[source].data].px = 0..file.width * file.height - 1
  BY <1>1 DEF IInv, Memory, Loaded, Pictures, Picture
<1>3. row = file.height
  BY DEF PInv, ReadSoFar
<1>4. \A r \in 0..file.height - 1, c \in 0..file.width - 1 :
        Px(source, file.width, r, c) = Pixel(Read, r * Stride(file.width) + 3 * c)
  BY <1>3 DEF PInv, ReadSoFar
<1> QED
  BY <1>1, <1>2, <1>4 DEF Px

(* What transform.c makes of it is the right picture, but for the bytes    *)
(* that the vector code smears.                                            *)
LEMMA MadeIs ==
  ASSUME IInv, PInv, pc = "transform", Asked,
         NEW r \in 0..Height - 1, NEW c \in 0..Width - 1, NEW i \in 1..3,
         ~Vague(r * Width + c, i)
  PROVE  Transformed(mode)[r * Width + c][i] = PixelAt(r, c)[i]
<1> DEFINE w == file.width
           h == file.height
           px == live[live[source].data].px
           k == r * Width + c
<1>1. /\ live[source].width = w /\ live[source].height = h
      /\ DOMAIN px = 0..w * h - 1
      /\ \A rr \in 0..h - 1, cc \in 0..w - 1 :
           px[rr * w + cc] = Pixel(Read, rr * Stride(w) + 3 * cc)
  BY ReadIs
<1>2. w \in Nat /\ h \in Nat
  BY RightSizes DEF IInv
<1>3. w * h \in Nat
  BY <1>2
<1>4. CASE mode = "r"
  <2>1. Width = h /\ Height = w
    BY <1>4 DEF Width, Height
  <2>2. Transformed(mode) = rotated(w, h, px)
    BY <1>1, <1>4 DEF Transformed
  <2>3. rotated(w, h, px)[r * h + c] = px[(h - 1 - c) * w + r]
    BY <1>2, <2>1, RotatedIs
  <2>4. px[(h - 1 - c) * w + r] = Pixel(Read, (h - 1 - c) * Stride(w) + 3 * r)
    <3>1. h - 1 - c \in 0..h - 1 /\ r \in 0..w - 1
      BY <1>2, <2>1
    <3> QED
      BY <1>1, <3>1
  <2>5. PixelAt(r, c) = Pixel(Read, (h - 1 - c) * Stride(w) + 3 * r)
    BY <1>4 DEF PixelAt
  <2> QED
    BY <2>1, <2>2, <2>3, <2>4, <2>5
<1>5. CASE mode # "r"
  <2> DEFINE n == r * Stride(w) + 3 * c
  <2>1. Width = w /\ Height = h
    BY <1>5 DEF Width, Height
  <2>2. k \in 0..w * h - 1 /\ px[k] = Pixel(Read, n)
    BY <1>1, <1>2, <2>1, CellIndex
  <2>3. PixelAt(r, c)[i] = Sepia(Channels[i], n)
    <3>1. PixelAt(r, c) = Pixel(Sepia, n)
      BY <1>5 DEF PixelAt
    <3> QED
      BY <3>1, SepiaIs
  <2> HIDE DEF k, n, px, w, h
  <2>4. CASE mode = "c"
    <3>1. Transformed(mode) = sepia_c(px, w * h)
      BY <1>1, <2>4 DEF Transformed, px, w, h
    <3>2. sepia_c(px, w * h)[k] = sepia_pixel(px[k])
      BY <2>2 DEF sepia_c
    <3> QED
      BY <2>2, <2>3, <3>1, <3>2, SepiaIs DEF k
  <2>5. CASE mode = "a"
    <3>1. Transformed(mode) = sepia_asm(px, w * h)
      BY <1>1, <2>5 DEF Transformed, px, w, h
    <3>2. k < vector_pixels(w * h) => 3 * (k % 4) + i - 1 < 4
      <4>1. ~(k < vector_pixels(w * h) /\ 3 * (k % 4) + i - 1 >= 4)
        BY <2>1, <2>5 DEF Vague, k
      <4>2. k \in Nat
        BY <2>2
      <4> QED
        BY <4>1, <4>2
    <3>3. sepia_asm(px, w * h)[k][i] = Sepia(Channels[i], n)
      BY <1>1, <1>3, <2>2, <3>2, AsmIs
    <3> QED
      BY <2>3, <3>1, <3>3 DEF k
  <2> QED
    BY <1>5, <2>4, <2>5 DEF Asked
<1> QED
  BY <1>4, <1>5

-----------------------------------------------------------------------------
(* The actions again: each keeps PInv.                                     *)

(* Away from the pictures all that counts is that nothing is written.      *)
LEMMA NoPicture ==
  ASSUME out' = << >>, Testing',
         pc' \notin {"seek", "read_row", "transform", "transformed", "exited"} \cup Writing,
         pc' \in Early \cup {"header"} => pos' = 0
  PROVE  PInv'
<1>1. ReadSoFar' /\ Transformation' /\ Written'
  BY DEF ReadSoFar, Transformation, Written, Early, Writing
<1> QED
  BY <1>1 DEF PInv

(* A return, of what is written so far.                                    *)
LEMMA Returns ==
  ASSUME UNCHANGED <<mode, file, out>>, pc' = "exited",
         \E n \in 0..Total : Agrees(n),
         code' = 0 /\ Asked => Agrees(Total)
  PROVE  PInv'
<1>1. ReadSoFar' /\ Transformation' /\ Testing'
  BY DEF ReadSoFar, Transformation, Testing, Early, Writing
<1>2. Written'
  BY SameInput, SameOutput DEF Written
<1> QED
  BY <1>1, <1>2 DEF PInv

LEMMA Unwritten ==
  ASSUME TypeOK, out = << >>
  PROVE  \E n \in 0..Total : Agrees(n)
<1>1. 0 \in 0..Total
  BY RightSizes
<1> QED
  BY <1>1, NoneWritten

(* from_bmp has failed, and with it the program.                           *)
LEMMA ReadFailsPixels ==
  ASSUME IInv, PInv, pc \in {"header", "seek", "read_row"}, NEW left, ReadFails(left),
         UNCHANGED <<mode, file, pos, out>>
  PROVE  PInv'
<1>1. out = << >>
  BY DEF PInv, Written
<1>2. CASE pc' = "exited" /\ code' = 1
  BY <1>1, <1>2, Returns, Unwritten DEF IInv
<1>3. CASE pc' = "aborted"
  BY <1>1, <1>3, NoPicture DEF Testing, Early, Writing
<1> QED
  BY <1>2, <1>3 DEF ReadFails, Exit, Go

LEMMA StartPixels ==
  ASSUME IInv, PInv, CheckArguments \/ OpenInput \/ AllocImage
  PROVE  PInv'
<1> USE DEF CheckArguments, OpenInput, AllocImage, Go, Exit
<1>1. out = << >> /\ pos = 0 /\ UNCHANGED <<mode, file, pos, out>>
  BY DEF PInv, Written, ReadSoFar, Early
<1>2. CASE pc' = "exited"
  <2>1. code' = 1
    BY <1>2
  <2> QED
    BY <1>1, <1>2, <2>1, Returns, Unwritten DEF IInv
<1>3. CASE pc' \in {"open_in", "alloc", "header"}
  BY <1>1, <1>3, NoPicture DEF Testing, Writing
<1> QED
  BY <1>2, <1>3

(* The picture has the sizes of the header; no row is read.                *)
LEMMA ReadHeaderPixels ==
  ASSUME IInv, PInv, ReadHeader
  PROVE  PInv'
<1>1. pc = "header" /\ UNCHANGED <<mode, file, pos, source, result, row, round, out>>
  BY DEF ReadHeader
<1>2. ASSUME NEW b \in FreeBlocks,
             live' = [With(b, pixels(Fresh(file.width * file.height)))
                        EXCEPT ![source] = image(file.width, file.height, b)],
             Go("seek")
      PROVE  PInv'
  <2>1. pos = 0 /\ out = << >> /\ source \in DOMAIN live
    BY <1>1 DEF PInv, ReadSoFar, Written, IInv, Memory
  <2>2. b # source /\ live'[source] = image(file.width, file.height, b)
    BY <1>2, <2>1 DEF With, FreeBlocks
  <2>3. /\ live'[source].width = file.width /\ live'[source].height = file.height
        /\ live'[source].data = b
        /\ live'[b] = pixels(live'[b].px)
    <3>1. live'[b] = pixels(Fresh(file.width * file.height))
      BY <1>2, <2>1, <2>2 DEF With
    <3> QED
      BY <2>2, <3>1 DEF image, pixels
  <2>4. ReadSoFar'
    BY <1>1, <1>2, <2>1, <2>3 DEF ReadSoFar, Go, Early
  <2>5. Transformation' /\ Written' /\ Testing'
    BY <1>1, <1>2, <2>1 DEF Transformation, Written, Testing, Go, Writing
  <2> QED
    BY <2>4, <2>5 DEF PInv
<1> QED
  BY <1>1, <1>2, ReadFailsPixels DEF ReadHeader

LEMMA SeekPixels ==
  ASSUME IInv, PInv, SeekBits
  PROVE  PInv'
<1>1. pc = "seek" /\ UNCHANGED <<mode, file, pos, source, result, round, out>>
  BY DEF SeekBits
<1>2. CASE Go("read_row") /\ row' = 0 /\ UNCHANGED live
  <2>1. pos = 0 /\ out = << >>
    BY <1>1 DEF PInv, ReadSoFar, Written
  <2>2. file.width \in Nat /\ file.height \in Nat /\ Stride(file.width) \in Nat
    BY RightSizes DEF IInv
  <2>3. ReadSoFar'
    BY <1>1, <1>2, <2>1, <2>2 DEF PInv, ReadSoFar, Go, Early
  <2>4. Transformation' /\ Written' /\ Testing'
    BY <1>1, <1>2, <2>1 DEF Transformation, Written, Testing, Go, Writing
  <2> QED
    BY <2>3, <2>4 DEF PInv
<1> QED
  BY <1>1, <1>2, ReadFailsPixels DEF SeekBits

(* A row that is read whole has the pixels of its place in the file.       *)
LEMMA ReadRowPixels ==
  ASSUME IInv, PInv, ReadRow
  PROVE  PInv'
<1> DEFINE data == live[source].data
           w == file.width
<1>1. pc = "read_row" /\ UNCHANGED <<mode, file, source, result, round, out>> /\ row < file.height
  BY DEF ReadRow
<1>2. ASSUME live' = [live EXCEPT ![data].px = [i \in DOMAIN @ |->
                 IF i \in row * w .. row * w + w - 1
                 THEN Pixel(Read, pos + 3 * (i - row * w)) ELSE @[i]]],
             pos' = pos + 3 * w + calc_padding(w),
             row' = row + 1, UNCHANGED <<pc, code>>
      PROVE  PInv'
  <2>1. /\ w \in Nat /\ file.height \in Nat /\ row \in Nat
        /\ Stride(w) = 3 * w + calc_padding(w) /\ Stride(w) \in Nat
        /\ calc_padding(w) \in Nat
    BY RightSizes, StrideIs DEF IInv, TypeOK
  <2>2. /\ pos = row * Stride(w)
        /\ live[source].width = w /\ live[source].height = file.height
        /\ live[data] = pixels(live[data].px)
    BY <1>1 DEF PInv, ReadSoFar
  <2>3. /\ data \in DOMAIN live /\ source # data /\ source \in DOMAIN live
        /\ DOMAIN live[data].px = 0..w * file.height - 1
    <3>1. Pictures
      BY <1>1 DEF IInv, Memory, Loaded
    <3> QED
      BY <2>2, <3>1, Blocks2 DEF Pictures, Picture
  <2>4. live'[source] = live[source]
    BY <1>2, <2>3
  <2> DEFINE filled == [i \in 0..w * file.height - 1 |->
                          IF i \in row * w .. row * w + w - 1
                          THEN Pixel(Read, pos + 3 * (i - row * w))
                          ELSE live[data].px[i]]
  <2>5. live'[data] = pixels(filled) /\ live'[data].px = filled
    <3>1. live'[data] = [live[data] EXCEPT !.px = filled]
      BY <1>2, <2>3
    <3> HIDE DEF data, filled
    <3>2. [pixels(live[data].px) EXCEPT !.px = filled] = pixels(filled)
      BY DEF pixels
    <3>3. pixels(filled).px = filled
      BY DEF pixels
    <3> QED
      BY <2>2, <3>1, <3>2, <3>3
  <2>6. pos' = (row + 1) * Stride(w)
    <3>1. (row + 1) * Stride(w) = row * Stride(w) + Stride(w) /\ row * Stride(w) \in Nat
      BY <2>1
    <3> QED
      BY <1>2, <2>1, <2>2, <3>1
  <2>7. ASSUME NEW r \in 0..row, NEW c \in 0..w - 1
        PROVE  live'[data].px[r * w + c] = Pixel(Read, r * Stride(w) + 3 * c)
    <3> DEFINE i == r * w + c
    <3>1. i \in 0..w * file.height - 1
      <4>1. r \in 0..file.height - 1
        BY <1>1, <2>1
      <4> QED
        BY <2>1, <4>1, CellIndex
    <3>2. CASE r = row
      <4>1. i \in row * w .. row * w + w - 1 /\ i - row * w = c
        <5>1. row * w \in Nat
          BY <2>1
        <5> QED
          BY <2>1, <3>2, <5>1
      <4> HIDE DEF i
      <4>2. live'[data].px[i] = Pixel(Read, pos + 3 * (i - row * w))
        BY <2>5, <3>1, <4>1
      <4> QED
        BY <2>2, <3>2, <4>1, <4>2 DEF i
    <3>3. CASE r # row
      <4>1. r \in 0..row - 1
        BY <2>1, <3>3
      <4>2. i \in 0..w * row - 1 /\ w * row = row * w
        BY <2>1, <4>1, CellIndex
      <4>3. ~(i \in row * w .. row * w + w - 1)
        <5>1. row * w \in Nat
          BY <2>1
        <5> HIDE DEF i
        <5> QED
          BY <4>2, <5>1
      <4>4. live[data].px[i] = Pixel(Read, r * Stride(w) + 3 * c)
        BY <1>1, <4>1 DEF PInv, ReadSoFar, Px
      <4> HIDE DEF i
      <4>5. live'[data].px[i] = live[data].px[i]
        BY <2>5, <3>1, <4>3
      <4> QED
        BY <4>4, <4>5 DEF i
    <3> QED
      BY <3>2, <3>3
  <2>8. ReadSoFar'
    <3>1. pc' = "read_row" /\ row' <= file.height /\ 0..row' - 1 = 0..row
      BY <1>1, <1>2, <2>1
    <3>2. live'[source].data = data
      BY <2>4
    <3>3. \A r \in 0..row, c \in 0..w - 1 :
            Px(source, w, r, c)' = Pixel(Read, r * Stride(w) + 3 * c)
      BY <1>1, <2>7, <3>2 DEF Px
    <3>4. row' * Stride(w) = (row + 1) * Stride(w)
      BY <1>2
    <3> HIDE DEF data
    <3> QED
      BY <1>1, <2>2, <2>4, <2>5, <2>6, <3>1, <3>2, <3>3, <3>4 DEF ReadSoFar, Early
  <2>9. Transformation' /\ Written' /\ Testing'
    <3>1. pc' = "read_row" /\ out' = << >>
      BY <1>1, <1>2 DEF PInv, Written
    <3> QED
      BY <3>1 DEF Transformation, Written, Testing, Writing
  <2> QED
    BY <2>8, <2>9 DEF PInv
<1>3. CASE ReadFails(Without(owned(source))) /\ UNCHANGED pos
  BY <1>1, <1>3, ReadFailsPixels
<1> HIDE DEF PInv
<1>4. \/ /\ live' = [live EXCEPT ![data].px = [i \in DOMAIN @ |->
                 IF i \in row * w .. row * w + w - 1
                 THEN Pixel(Read, pos + 3 * (i - row * w)) ELSE @[i]]]
         /\ pos' = pos + 3 * w + calc_padding(w)
         /\ row' = row + 1 /\ UNCHANGED <<pc, code>>
      \/ ReadFails(Without(owned(source))) /\ UNCHANGED pos
  BY DEF ReadRow
<1> HIDE DEF data, w
<1> QED
  BY <1>2, <1>3, <1>4, Zenon

LEMMA ReadDonePixels ==
  ASSUME IInv, PInv, ReadDone
  PROVE  PInv'
<1>1. /\ pc = "read_row" /\ row = file.height
      /\ UNCHANGED <<mode, file, pos, live, source, result, row, round, out>>
  BY DEF ReadDone
<1>2. out = << >>
  BY <1>1 DEF PInv, Written
<1>3. CASE mode = Tester /\ pc' = "round"
  BY <1>1, <1>2, <1>3, NoPicture DEF Testing, Early, Writing
<1>4. CASE pc' = "transform"
  <2>1. ReadSoFar'
    BY <1>1, <1>4 DEF PInv, ReadSoFar, Early, Px
  <2>2. Transformation' /\ Written' /\ Testing'
    BY <1>1, <1>2, <1>4 DEF Transformation, Written, Testing, Writing
  <2> QED
    BY <2>1, <2>2 DEF PInv
<1> QED
  BY <1>3, <1>4 DEF ReadDone, Go

(* transform.c makes the right picture, or none.                           *)
LEMMA TransformPixels ==
  ASSUME IInv, PInv, Transform
  PROVE  PInv'
<1>1. /\ pc = "transform" /\ pc' = "transformed" /\ CreateFor(mode)
      /\ UNCHANGED <<mode, file, source, out>>
  BY DEF Transform, Go
<1>2. Asked /\ out = << >>
  BY <1>1 DEF IInv, Chosen, Asked, PInv, Written
<1>3. ReadSoFar' /\ Written' /\ Testing'
  BY <1>1, <1>2 DEF ReadSoFar, Written, Testing, Early
<1>4. Create(mode, Width, Height)
  <2>1. live[source].width = file.width /\ live[source].height = file.height
    BY <1>1, ReadIs
  <2> QED
    BY <1>1, <2>1 DEF CreateFor, Width, Height
<1>5. Asked' /\ Width' = Width /\ Height' = Height
  BY <1>1, <1>2, SameInput
<1>6. CASE result' = NULL
  BY <1>1, <1>3, <1>5, <1>6 DEF PInv, Transformation
<1>7. ASSUME NEW s \in FreeBlocks, NEW d \in FreeBlocks \ {s}, result' = s,
             live' = [x \in DOMAIN live \cup {s, d} |->
                        IF x = s THEN image(Width, Height, d)
                        ELSE IF x = d THEN pixels(Transformed(mode)) ELSE live[x]]
      PROVE  PInv'
  <2>1. /\ live'[s] = image(Width, Height, d)
        /\ live'[d] = pixels(Transformed(mode))
    BY <1>7
  <2>2. /\ live'[s].width = Width /\ live'[s].height = Height /\ live'[s].data = d
        /\ live'[d].px = Transformed(mode)
    BY <2>1 DEF image, pixels
  <2>3. \A r, c : Px(result, Width, r, c)' = Transformed(mode)[r * Width + c]
    BY <1>5, <1>7, <2>2 DEF Px
  <2>4. \A r \in 0..Height - 1, c \in 0..Width - 1, i \in 1..3 :
          \/ Vague(r * Width + c, i)
          \/ Transformed(mode)[r * Width + c][i] = PixelAt(r, c)[i]
    BY <1>1, <1>2, MadeIs
  <2>5. /\ \A k, i : Vague(k, i)' <=> Vague(k, i)
        /\ \A r, c : PixelAt(r, c)' = PixelAt(r, c)
    BY <1>1, SameInput
  <2>6. Transformation'
    BY <1>5, <1>7, <2>2, <2>3, <2>4, <2>5 DEF Transformation
  <2> QED
    BY <1>3, <2>6 DEF PInv
<1> QED
  BY <1>4, <1>6, <1>7 DEF Create

-----------------------------------------------------------------------------
(* to_bmp                                                                  *)

(* While it is written, the picture stays.                                 *)
LEMMA SamePicture ==
  ASSUME PInv, pc \in {"transformed"} \cup Writing, pc' \in Writing,
         UNCHANGED <<mode, file, live, result>>, Written'
  PROVE  PInv'
<1>1. ReadSoFar' /\ Testing'
  BY DEF ReadSoFar, Testing, Early, Writing
<1>2. /\ Width' = Width /\ Height' = Height /\ (Asked' <=> Asked)
      /\ \A k, i : Vague(k, i)' <=> Vague(k, i)
      /\ \A r, c : PixelAt(r, c)' = PixelAt(r, c)
  BY SameInput
<1>3. \A r, c : Px(result, Width, r, c)' = Px(result, Width, r, c)
  BY <1>2 DEF Px
<1>4. Transformation'
  BY <1>2, <1>3 DEF PInv, Transformation
<1> QED
  BY <1>1, <1>4 DEF PInv

(* Two sequences, one behind the other.                                    *)
LEMMA ConcatIs ==
  ASSUME NEW n \in Nat, NEW m \in Nat, NEW s, NEW t,
         s = [i \in 1..n |-> s[i]], t = [i \in 1..m |-> t[i]]
  PROVE  /\ s \o t = [i \in 1..n + m |-> (s \o t)[i]]
         /\ \A i \in 1..n : (s \o t)[i] = s[i]
         /\ \A i \in 1..m : (s \o t)[n + i] = t[i]
<1> DEFINE S == {s[i] : i \in 1..n} \cup {t[i] : i \in 1..m}
<1>1. (\A i \in 1..n : s[i] \in S) /\ (\A i \in 1..m : t[i] \in S)
  OBVIOUS
<1> HIDE DEF S
<1>2. s \in Seq(S) /\ Len(s) = n /\ t \in Seq(S) /\ Len(t) = m
  BY <1>1, IsSequence
<1>3. s \o t \in Seq(S) /\ Len(s \o t) = n + m
  BY <1>2
<1> QED
  BY <1>2, <1>3, LenProperties

(* The bytes that write_row writes of row `row` are those of the right     *)
(* output, but for the smeared.                                            *)
LEMMA RowIs ==
  ASSUME IInv, PInv, pc = "write_row", row < Height
  PROVE  LET bytes == RowBytes(live[result], row)
             S     == Stride(Width)
         IN  /\ bytes = [i \in 1..S |-> bytes[i]]
             /\ \A i \in 1..S : \/ Smeared(1 + row * S + i)
                                \/ bytes[i] = Expected[1 + row * S + i]
<1> DEFINE S == Stride(Width)
           px == live[live[result].data].px
           pad == calc_padding(Width)
           three == [i \in 1..3 * Width |-> px[row * Width + ((i - 1) \div 3)][((i - 1) % 3) + 1]]
           zeros == [i \in 1..pad |-> Zero]
<1>1. /\ Width \in Nat /\ Height \in Nat /\ S \in Nat /\ S = 3 * Width + pad
      /\ pad \in Nat /\ row \in Nat
  BY RightSizes DEF IInv, TypeOK
<1>2. row \in 0..Height - 1 /\ row * S \in Nat
  BY <1>1
<1>3. result # NULL /\ live[result].width = Width
  BY DEF IInv, Memory, PInv, Transformation, Writing
<1>4. RowBytes(live[result], row) = three \o zeros
  BY <1>3 DEF RowBytes, Bytes
<1>5. \A r \in 0..Height - 1, c \in 0..Width - 1, i \in 1..3 :
        \/ Vague(r * Width + c, i)
        \/ px[r * Width + c][i] = PixelAt(r, c)[i]
  BY <1>3 DEF PInv, Transformation, Writing, Px
<1>6. ASSUME NEW i \in 1..3 * Width
      PROVE  \/ Smeared(1 + row * S + i)
             \/ three[i] = Expected[1 + row * S + i]
  <2> DEFINE c == i - 1
  <2>1. c \in 0..3 * Width - 1 /\ c \in 0..S - 1 /\ c < 3 * Width
    BY <1>1
  <2>2. c \div 3 \in 0..Width - 1 /\ (c % 3) + 1 \in 1..3
    BY <1>1, <2>1
  <2>3. 1 + row * S + i = 2 + row * S + c
    BY <1>2
  <2>4. three[i] = px[row * Width + (c \div 3)][(c % 3) + 1]
    OBVIOUS
  <2>5. Expected[2 + row * S + c] = PixelAt(row, c \div 3)[(c % 3) + 1]
    BY <1>2, <2>1, RightIs DEF IInv
  <2>6. CASE Vague(row * Width + (c \div 3), (c % 3) + 1)
    BY <1>2, <2>1, <2>3, <2>6, SmearedIs DEF IInv
  <2>7. CASE ~Vague(row * Width + (c \div 3), (c % 3) + 1)
    <3>1. px[row * Width + (c \div 3)][(c % 3) + 1] = PixelAt(row, c \div 3)[(c % 3) + 1]
      BY <1>2, <1>5, <2>2, <2>7
    <3> HIDE DEF px, S, c, three
    <3> QED
      BY <2>3, <2>4, <2>5, <3>1, Zenon
  <2> QED
    BY <2>6, <2>7
<1>7. ASSUME NEW i \in 1..pad
      PROVE  zeros[i] = Expected[1 + row * S + (3 * Width + i)]
  <2>1. 3 * Width + i - 1 \in 0..S - 1 /\ ~(3 * Width + i - 1 < 3 * Width)
    BY <1>1
  <2>2. Expected[2 + row * S + (3 * Width + i - 1)] = Zero
    BY <1>2, <2>1, RightIs DEF IInv
  <2>3. 2 + row * S + (3 * Width + i - 1) = 1 + row * S + (3 * Width + i)
    BY <1>1, <1>2
  <2> QED
    BY <2>2, <2>3
<1> DEFINE bytes == three \o zeros
<1>8. three = [i \in 1..3 * Width |-> three[i]] /\ zeros = [i \in 1..pad |-> zeros[i]]
  OBVIOUS
<1> HIDE DEF S, pad, px, three, zeros
<1>9. /\ bytes = [i \in 1..3 * Width + pad |-> bytes[i]]
      /\ \A i \in 1..3 * Width : bytes[i] = three[i]
      /\ \A i \in 1..pad : bytes[3 * Width + i] = zeros[i]
  <2> DEFINE n == 3 * Width
  <2>1. n \in Nat /\ pad \in Nat
    BY <1>1
  <2>2. three = [i \in 1..n |-> three[i]] /\ zeros = [i \in 1..pad |-> zeros[i]]
    BY <1>8
  <2> HIDE DEF n
  <2>3. /\ three \o zeros = [i \in 1..n + pad |-> (three \o zeros)[i]]
        /\ \A i \in 1..n : (three \o zeros)[i] = three[i]
        /\ \A i \in 1..pad : (three \o zeros)[n + i] = zeros[i]
    BY <2>1, <2>2, ConcatIs
  <2> QED
    BY <2>3 DEF n
<1>10. ASSUME NEW i \in 1..S
       PROVE  \/ Smeared(1 + row * S + i)
              \/ bytes[i] = Expected[1 + row * S + i]
  <2>1. CASE i \in 1..3 * Width
    BY <1>6, <1>9, <2>1
  <2>2. CASE i - 3 * Width \in 1..pad
    <3>1. i = 3 * Width + (i - 3 * Width)
      BY <1>1
    <3> QED
      BY <1>7, <1>9, <2>2, <3>1
  <2>3. i \in 1..3 * Width \/ i - 3 * Width \in 1..pad
    BY <1>1
  <2> QED
    BY <2>1, <2>2, <2>3, Zenon
<1> QED
  BY <1>1, <1>4, <1>9, <1>10 DEF S

(* Whatever is written agrees with the right output.                       *)
LEMMA WrittenAgrees ==
  ASSUME IInv, PInv, pc # "aborted"
  PROVE  \E n \in 0..Total : Agrees(n)
<1>1. CASE pc = "write_row"
  <2>1. row <= Height /\ Agrees(1 + row * Stride(Width))
    BY <1>1 DEF PInv, Written
  <2>2. 1 + row * Stride(Width) \in 0..Total
    <3>1. /\ row \in Nat /\ Height \in Nat /\ Stride(Width) \in Nat
          /\ Total = 1 + Height * Stride(Width)
      BY RightSizes DEF IInv, TypeOK
    <3>2. row * Stride(Width) <= Height * Stride(Width) /\ row * Stride(Width) \in Nat
      BY <2>1, <3>1
    <3>3. Height * Stride(Width) \in Nat
      BY <3>1
    <3> QED
      BY <3>1, <3>2, <3>3
  <2> QED
    BY <2>1, <2>2
<1>2. CASE pc = "exited"
  BY <1>2 DEF PInv, Written
<1>3. CASE pc \notin {"write_row", "exited"}
  BY <1>3, Unwritten DEF IInv, PInv, Written
<1> QED
  BY <1>1, <1>2, <1>3

(* A call has failed after from_bmp: the program returns 1.                *)
LEMMA GivesUp ==
  ASSUME IInv, PInv, pc # "aborted", UNCHANGED <<mode, file, out>>, Exit(1)
  PROVE  PInv'
  BY WrittenAgrees, Returns DEF Exit

LEMMA OpenPixels ==
  ASSUME IInv, PInv, TransformFails \/ OpenOutput
  PROVE  PInv'
<1>1. pc = "transformed" /\ UNCHANGED <<mode, file, result, out>>
  BY DEF TransformFails, OpenOutput
<1>2. CASE Exit(1)
  BY <1>1, <1>2, GivesUp
<1>3. CASE pc' = "write_header" /\ UNCHANGED live
  <2>1. Written'
    BY <1>1, <1>3 DEF PInv, Written
  <2> QED
    BY <1>1, <1>3, <2>1, SamePicture DEF Writing
<1> QED
  BY <1>2, <1>3 DEF TransformFails, OpenOutput, WriteFails, Go

(* The header has the right sizes, when a register can hold them.          *)
LEMMA WriteHeaderPixels ==
  ASSUME SizesFit, IInv, PInv, WriteHeader
  PROVE  PInv'
<1> DEFINE im == live[result]
<1>1. pc = "write_header"
  BY DEF WriteHeader
<1>2. CASE WriteFails /\ UNCHANGED <<row, out>>
  BY <1>1, <1>2, GivesUp DEF WriteHeader, WriteFails
<1>3. CASE /\ out' = << <<im.width, im.height, image_size(im.width, im.height)>> >>
           /\ row' = 0 /\ Go("write_row") /\ UNCHANGED live
  <2>1. pc' = "write_row" /\ UNCHANGED <<mode, file, result>>
    BY <1>3 DEF WriteHeader, Go
  <2>2. result # NULL /\ im.width = Width /\ im.height = Height
    BY <1>1 DEF IInv, Memory, PInv, Transformation, Writing
  <2>3. /\ Width \in Nat /\ Height \in Nat /\ Stride(Width) \in Nat
        /\ Stride(Width) = Width * 3 + calc_padding(Width)
        /\ calc_padding(Width) \in Nat
    BY RightSizes DEF IInv
  <2>4. Height * Stride(Width) \in Nat /\ Height * Stride(Width) < U32
    <3>1. file \in FILES
      BY DEF IInv, TypeOK
    <3> QED
      BY <2>3, <3>1 DEF SizesFit, Width, Height
  <2>5. image_size(Width, Height) = Height * Stride(Width)
    <3> DEFINE n == Height * Stride(Width)
    <3>1. (Width * 3 + calc_padding(Width)) * Height = n
      <4>1. Stride(Width) * Height = n
        BY <2>3
      <4> QED
        BY <2>3, <4>1
    <3> HIDE DEF n
    <3>2. n % U32 = n
      BY <2>4, BoundsAssumption DEF n
    <3> QED
      BY <3>1, <3>2 DEF image_size, n
  <2>6. Expected[1] = <<Width, Height, Height * Stride(Width)>>
    BY RightIs DEF IInv
  <2>7. out' = <<Expected[1]>>
    BY <1>3, <2>2, <2>5, <2>6
  <2>8. Agrees(1)'
    <3>1. Expected' = Expected
      BY <2>1, SameInput
    <3> QED
      BY <2>7, <3>1 DEF Agrees
  <2>9. Written'
    <3>1. Height' = Height /\ Width' = Width
      BY <2>1, SameInput
    <3>2. 1 + row' * Stride(Width)' = 1
      BY <1>3, <2>3, <3>1
    <3> QED
      BY <1>3, <2>1, <2>3, <2>8, <3>1, <3>2 DEF Written
  <2> QED
    BY <1>1, <1>3, <2>1, <2>9, SamePicture DEF Writing
<1> QED
  BY <1>2, <1>3 DEF WriteHeader

(* A row, or what is written of it before a failure, is the next part of   *)
(* the right output.                                                       *)
LEMMA WriteRowPixels ==
  ASSUME IInv, PInv, WriteRow
  PROVE  PInv'
<1> DEFINE S == Stride(Width)
           bytes == RowBytes(live[result], row)
<1>1. pc = "write_row" /\ UNCHANGED <<mode, file, result>> /\ row < live[result].height
  BY DEF WriteRow
<1>2. result # NULL /\ live[result].height = Height
  BY <1>1 DEF IInv, Memory, PInv, Transformation, Writing
<1>3. /\ Height \in Nat /\ S \in Nat /\ row \in Nat /\ Total = 1 + Height * S
      /\ Height * S \in Nat
  BY RightSizes DEF IInv, TypeOK
<1>0. PICK n \in Nat : n = 1 + row * S
  <2>1. row * S \in Nat
    BY <1>3
  <2> QED
    BY <2>1
<1>4. row < Height /\ Agrees(n)
  BY <1>0, <1>1, <1>2 DEF PInv, Written
<1>5. /\ bytes = [i \in 1..S |-> bytes[i]]
      /\ \A i \in 1..S : Smeared(n + i) \/ bytes[i] = Expected[n + i]
  BY <1>0, <1>1, <1>4, RowIs
<1>6. n + S = 1 + (row + 1) * S /\ n + S <= Total
  <2>1. (row + 1) * S = row * S + S /\ row * S \in Nat
    BY <1>3
  <2>2. (row + 1) * S <= Height * S
    BY <1>3, <1>4
  <2> QED
    BY <1>0, <1>3, <2>1, <2>2
<1>7. ASSUME NEW m \in Nat, m <= S, NEW part, part = [i \in 1..m |-> bytes[i]], out' = out \o part
      PROVE  Agrees(n + m)'
  <2> HIDE DEF bytes
  <2>1. part = [i \in 1..m |-> part[i]] /\ \A i \in 1..m : part[i] = bytes[i]
    BY <1>7
  <2>2. \A i \in 1..m : i \in 1..S
    BY <1>3, <1>7
  <2>3. \A i \in 1..m : Smeared(n + i) \/ part[i] = Expected[n + i]
    BY <1>5, <2>1, <2>2
  <2> QED
    BY <1>1, <1>4, <1>7, <2>1, <2>3, Longer DEF IInv
<1>8. /\ Total' = Total /\ Width' = Width /\ Height' = Height
      /\ (Asked' <=> Asked)
  BY <1>1, SameInput
<1>9. CASE out' = out \o bytes /\ row' = row + 1 /\ UNCHANGED <<pc, live>>
  <2>0. PICK m \in Nat : m = S
    BY <1>3
  <2>1. Agrees(n + m)'
    <3> HIDE DEF bytes, S
    <3>1. bytes = [i \in 1..m |-> bytes[i]]
      BY <1>5, <2>0, Zenon
    <3>2. m <= S /\ out' = out \o bytes
      BY <1>9, <2>0
    <3> QED
      BY <1>7, <3>1, <3>2
  <2>2. Written'
    <3>1. pc' = "write_row" /\ row' <= Height'
      BY <1>1, <1>3, <1>4, <1>8, <1>9
    <3>2. n + m = 1 + row' * Stride(Width)'
      BY <1>6, <1>8, <1>9, <2>0
    <3> QED
      BY <2>1, <3>1, <3>2 DEF Written
  <2> QED
    BY <1>1, <1>9, <2>2, SamePicture DEF Writing
<1>10. CASE /\ \E m \in 0..Len(bytes) - 1 : out' = out \o SubSeq(bytes, 1, m)
            /\ WriteFails
  <2>1. Len(bytes) = S
    BY <1>3, <1>5, LenIs
  <2>2. PICK m \in 0..S - 1 : out' = out \o SubSeq(bytes, 1, m)
    BY <1>10, <2>1
  <2>3. SubSeq(bytes, 1, m) = [i \in 1..m |-> bytes[i]]
    <3> HIDE DEF bytes, S
    <3> QED
      BY <1>3, <1>5, <2>1, StartIs
  <2>4. Agrees(n + m)' /\ n + m \in 0..Total
    <3>1. m \in Nat /\ m <= S
      BY <1>3
    <3>2. Agrees(n + m)'
      BY <1>7, <2>2, <2>3, <3>1
    <3> QED
      BY <1>3, <1>6, <3>1, <3>2
  <2>5. pc' = "exited" /\ code' = 1
    BY <1>10 DEF WriteFails, Exit
  <2>6. ReadSoFar' /\ Transformation' /\ Testing'
    BY <2>5 DEF ReadSoFar, Transformation, Testing, Early, Writing
  <2>7. Written'
    BY <1>8, <2>4, <2>5 DEF Written
  <2> QED
    BY <2>6, <2>7 DEF PInv
<1> QED
  BY <1>9, <1>10 DEF WriteRow

(* main returns 0 with every row written.                                  *)
LEMMA WriteDonePixels ==
  ASSUME IInv, PInv, WriteDone
  PROVE  PInv'
<1>1. /\ pc = "write_row" /\ row = live[result].height /\ pc' = "exited"
      /\ UNCHANGED <<mode, file, out>>
  BY DEF WriteDone, Exit
<1>2. result # NULL /\ live[result].height = Height
  BY <1>1 DEF IInv, Memory, PInv, Transformation, Writing
<1>3. Agrees(Total)
  BY <1>1, <1>2 DEF PInv, Written, Total
<1> QED
  BY <1>1, <1>3, WrittenAgrees, Returns

(* The tester writes nothing.                                              *)
LEMMA RoundPixels ==
  ASSUME IInv, PInv, RoundC \/ RoundAsm \/ FreeRound \/ TesterDone
  PROVE  PInv'
<1>1. mode = Tester /\ out = << >> /\ UNCHANGED <<mode, file, out>>
  BY DEF PInv, Testing, Written, RoundC, RoundAsm, FreeRound, TesterDone
<1>2. CASE pc' \in {"free_c", "asm", "free_asm", "round"}
  BY <1>1, <1>2, NoPicture DEF Testing, Early, Writing
<1>3. CASE TesterDone
  <2>1. ~Asked
    BY <1>1 DEF Asked, Tester
  <2> QED
    BY <1>1, <1>3, <2>1, Unwritten, Returns DEF IInv, TesterDone, Exit
<1> QED
  BY <1>2, <1>3 DEF RoundC, RoundAsm, FreeRound, Go

-----------------------------------------------------------------------------
(* The theorems that follow from PInv                                      *)

(* PInv holds at every row that is read or written, for every file whose   *)
(* size biSizeImage can say, whichever calls of the C library fail.        *)
THEOREM PixelInvariance ==
  ASSUME SizesFit
  PROVE  Spec => []PInv
<1>1. Init => PInv
  <2> SUFFICES ASSUME Init PROVE PInv
    OBVIOUS
  <2>1. pc = "start" /\ out = << >> /\ pos = 0
    BY DEF Init
  <2> QED
    BY <2>1 DEF PInv, ReadSoFar, Transformation, Written, Testing, Writing
<1>2. ASSUME IInv, PInv, [Next]_vars PROVE PInv'
  <2>1. CASE UNCHANGED vars
    <3>1. /\ UNCHANGED <<pc, code, mode, file, pos, live, source, result, row, out>>
      BY <2>1 DEF vars
    <3>2. ReadSoFar' /\ Testing'
      BY <1>2, <3>1 DEF PInv, ReadSoFar, Testing, Px
    <3>3. Transformation'
      <4>1. /\ Width' = Width /\ Height' = Height /\ (Asked' <=> Asked)
            /\ \A k, i : Vague(k, i)' <=> Vague(k, i)
            /\ \A r, c : PixelAt(r, c)' = PixelAt(r, c)
        BY <3>1, SameInput
      <4>2. \A r, c : Px(result, Width, r, c)' = Px(result, Width, r, c)
        BY <3>1, <4>1 DEF Px
      <4> QED
        BY <1>2, <3>1, <4>1, <4>2 DEF PInv, Transformation
    <3>4. Written'
      <4>1. /\ Width' = Width /\ Height' = Height /\ (Asked' <=> Asked)
            /\ Total' = Total /\ \A n : Agrees(n)' <=> Agrees(n)
        BY <3>1, SameInput, SameOutput
      <4> QED
        BY <1>2, <3>1, <4>1 DEF PInv, Written
    <3> QED
      BY <3>2, <3>3, <3>4 DEF PInv
  <2> QED
    BY <1>2, <2>1, StartPixels, ReadHeaderPixels, SeekPixels, ReadRowPixels,
       ReadDonePixels, TransformPixels, OpenPixels, WriteHeaderPixels,
       WriteRowPixels, WriteDonePixels, RoundPixels DEF Next
<1> QED
  BY <1>1, <1>2, Invariance, PTL DEF Spec

(* What the output file holds, of any mode that main knows.                *)
LEMMA Holds ==
  ASSUME IInv, PInv, Asked
  PROVE  /\ Len(out) <= Len(Expected)
         /\ \A n \in DOMAIN out : Smeared(n) \/ out[n] = Expected[n]
         /\ pc = "exited" /\ code = 0 => Len(out) = Len(Expected)
<1>1. Len(Expected) = Total /\ Total \in Nat
  BY RightIs, RightSizes DEF IInv
<1>2. ASSUME NEW n \in 0..Total, Agrees(n)
      PROVE  /\ Len(out) = n /\ DOMAIN out = 1..n
             /\ \A i \in DOMAIN out : Smeared(i) \/ out[i] = Expected[i]
  BY <1>1, <1>2, LenIs DEF Agrees
<1>3. pc = "aborted" => Agrees(0)
  BY NoneWritten DEF PInv, Written
<1>4. \E n \in 0..Total : Agrees(n)
  BY <1>1, <1>3, WrittenAgrees
<1>5. pc = "exited" /\ code = 0 => Len(out) = Total
  BY <1>1, <1>2 DEF PInv, Written
<1> QED
  BY <1>1, <1>2, <1>4, <1>5

(* At any moment the output file of main, asked to turn the picture or to  *)
(* filter it in C, holds the beginning of the right picture; when main     *)
(* returns 0 it is whole.                                                  *)
THEOREM OutputRight ==
  ASSUME SizesFit
  PROVE  Spec => []OutputIsRight
<1>1. IInv /\ PInv => OutputIsRight
  <2> SUFFICES ASSUME IInv, PInv, mode \in {"r", "c"} PROVE OutputIsRight
    BY DEF OutputIsRight
  <2>1. Asked /\ \A n : ~Smeared(n)
    BY DEF Asked, Smeared
  <2> QED
    BY <2>1, Holds DEF OutputIsRight
<1> QED
  BY <1>1, Invariance, PixelInvariance, PTL

(* Of the vector code's output the sizes, the padding and the bytes of the *)
(* first group and of the pixels left over are right; VectorIsSepia, which *)
(* asks for the other bytes too, does not hold.                            *)
THEOREM VectorPartRight ==
  ASSUME SizesFit
  PROVE  Spec => []VectorPart
<1>1. IInv /\ PInv => VectorPart
  BY Holds DEF Asked, VectorPart
<1> QED
  BY <1>1, Invariance, PixelInvariance, PTL
=============================================================================
