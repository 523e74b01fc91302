----------------------------- MODULE SepiaFilter -----------------------------
(***************************************************************************)
(* The programs of sepia-filter: main.c and sepia_tester.c with io_bmp.c,  *)
(* image.c, transform.c and sepia_filter.asm, from the arguments to the    *)
(* exit status.  Every call of the C library may fail.                     *)
(*                                                                         *)
(* Both a struct image and its pixels are blocks of the C heap.  A byte is *)
(* <<what, channel, pixel>>: a byte of a pixel of the file, the sepia of   *)
(* one, or a byte that nobody wrote.                                       *)
(***************************************************************************)
EXTENDS Integers, SequencesExt

CONSTANTS
  FILES,       \* input files: [width, height, bytes], bytes after bOffBits
  MODES,       \* first characters of the third argument; Tester for sepia_tester
  Blocks,      \* the blocks malloc can return
  NULL,
  Iterations,  \* rounds of run_tester (100 in the source)
  U32,         \* what a uint32_t wraps at
  U64          \* what a uint64_t and a size_t wrap at

Tester == "tester"
Absent == "absent"  \* argc is too small

ASSUME FilesAssumption ==
  FILES \subseteq [width : Nat, height : Nat, bytes : Nat]
ASSUME BlocksAssumption == NULL \notin Blocks
ASSUME BoundsAssumption == Iterations \in Nat /\ U32 \in Nat \ {0}

(* The bytes that io_bmp.c:69 and image.c:14 ask malloc for can be said in *)
(* a size_t: malloc gives room for what was meant, or fails.               *)
ASSUME ProductsAssumption ==
  U64 \in Nat /\ \A f \in FILES : 3 * (f.width * f.height) < U64

VARIABLES
  pc, code,  \* where the program is; its exit status
  mode,      \* the transformation main was asked for
  file, pos, \* the input file; bytes of it read so far
  opened,    \* the streams that are open: "in", "out"
  live,      \* live blocks of the heap, with what they hold
  source,    \* main's input_image
  result,    \* main's output_image
  row,       \* the loop variable of from_bmp and to_bmp
  round,     \* the loop variable of run_tester
  twice,     \* a block that was not live has been freed
  out        \* what is written: the header, then bytes

vars == <<pc, code, mode, file, pos, opened, live, source, result, row, round,
          twice, out>>

Init ==
  /\ pc = "start" /\ code = 0 /\ mode \in MODES
  /\ file \in FILES /\ pos = 0 /\ opened = {}
  /\ live = [b \in {} |-> {}] /\ source = NULL /\ result = NULL
  /\ row = 0 /\ round = 0 /\ twice = FALSE
  /\ out = << >>

-----------------------------------------------------------------------------
(* The heap                                                                *)

Channels == <<"b", "g", "r">>

Undefined == <<"undefined", "none", 0>>
Outside   == <<"outside", "none", 0>>  \* read past the end of a block
Zero      == <<"zero", "none", 0>>     \* padding

Read(c, n)  == <<"file", c, n>>   \* channel c of the n-th pixel of the file
Sepia(c, n) == <<"sepia", c, n>>  \* of sepia_pixel of that pixel

Pixel(of(_, _), n) == [i \in 1..3 |-> of(Channels[i], n)]

Fresh(n) == [i \in 0..n - 1 |-> [c \in 1..3 |-> Undefined]]

(* What a block holds: a struct image, or the pixels px.                   *)
image(w, h, d) == [width |-> w, height |-> h, data |-> d, px |-> << >>]
pixels(px)     == [width |-> 0, height |-> 0, data |-> NULL, px |-> px]

(* The heap with block b allocated; without the blocks of s.               *)
With(b, held) == [x \in DOMAIN live \cup {b} |-> IF x = b THEN held ELSE live[x]]
Without(s)    == [x \in DOMAIN live \ s |-> live[x]]

FreeBlocks == Blocks \ DOMAIN live

(* What free_image(p) frees: the pixels, then the struct.                  *)
owned(p) == IF p = NULL THEN {} ELSE {p, live[p].data} \ {NULL}

wrong_free_image(p) == live' = Without({p} \ {NULL})  \* the pixels stay
free_image(p) == live' = Without(owned(p))

-----------------------------------------------------------------------------
(* main up to from_bmp, and run_tester                                     *)

Go(label) == pc' = label /\ UNCHANGED code
Exit(c)   == pc' = "exited" /\ code' = c

CheckArguments ==
  /\ pc = "start"
  /\ IF mode \in {"r", "c", "a", Tester} THEN Go("open_in") ELSE Exit(1)
  /\ UNCHANGED <<mode, file, pos, opened, live, source, result, row, round, twice, out>>

OpenInput ==
  /\ pc = "open_in"
  /\ \/ Go("alloc") /\ opened' = {"in"}
     \/ Exit(1) /\ UNCHANGED opened
  /\ UNCHANGED <<mode, file, pos, live, source, result, row, round, twice, out>>

AllocImage ==
  /\ pc = "alloc"
  /\ \/ \E b \in FreeBlocks :
          /\ source' = b
          /\ live' = With(b, image(0, 0, NULL))
          /\ Go("header")
          /\ UNCHANGED opened
     \/ Exit(1) /\ opened' = {} /\ UNCHANGED <<source, live>>
  /\ UNCHANGED <<mode, file, pos, result, row, round, twice, out>>

wrong_ReadFails(left) ==  \* the caller trusts from_bmp to have freed its image
  /\ opened' = {}
  /\ live' = left
  /\ Exit(1)
  /\ UNCHANGED twice

(* What main and run_tester do when from_bmp fails: fclose, then           *)
(* free(input_image).  A second free of a block is undefined: the library  *)
(* aborts the program, or does not notice.                                 *)
ReadFails(left) ==
  /\ opened' = {}
  /\ IF source \in DOMAIN left
     THEN live' = [x \in DOMAIN left \ {source} |-> left[x]] /\ Exit(1)
                    /\ UNCHANGED twice
     ELSE live' = left /\ twice' = TRUE /\ \/ Exit(1)
                                             \/ Go("aborted")

-----------------------------------------------------------------------------
(* from_bmp                                                                *)

(* Sizes as in ProductsAssumption, so that the pixels are width * height.  *)
ReadHeader ==
  /\ pc = "header"
  /\ \/ \E b \in FreeBlocks :  \* bfType, biPlanes and biSize are right
          /\ live' = [With(b, pixels(Fresh(file.width * file.height)))
                        EXCEPT ![source] = image(file.width, file.height, b)]
          /\ Go("seek")
          /\ UNCHANGED <<opened, twice>>
     \/ ReadFails(live)        \* no header, a wrong one, or no memory
  /\ UNCHANGED <<mode, file, pos, source, result, row, round, out>>

SeekBits ==
  /\ pc = "seek"
  /\ \/ Go("read_row") /\ row' = 0 /\ UNCHANGED <<opened, live, twice>>
     \/ ReadFails(Without(owned(source))) /\ UNCHANGED row
  /\ UNCHANGED <<mode, file, pos, source, result, round, out>>

calc_padding(width) == (4 - ((width * 3) % 4)) % 4

(* read_row: the pixels and then, if there is any, over the padding; fseek *)
(* may go past the end of the file.                                        *)
ReadRow ==
  /\ pc = "read_row"
  /\ row < file.height
  /\ LET data == live[source].data
     IN  \/ /\ pos + 3 * file.width <= file.bytes \/ file.width = 0
            /\ live' = [live EXCEPT ![data].px = [i \in DOMAIN @ |->
                 IF i \in row * file.width .. row * file.width + file.width - 1
                 THEN Pixel(Read, pos + 3 * (i - row * file.width)) ELSE @[i]]]
            /\ pos' = pos + 3 * file.width + calc_padding(file.width)
            /\ row' = row + 1
            /\ UNCHANGED <<pc, code, opened, twice>>
         \/ /\ file.width > 0
            /\ ReadFails(Without(owned(source)))
            /\ UNCHANGED <<pos, row>>
  /\ UNCHANGED <<mode, file, source, result, round, out>>

ReadDone ==
  /\ pc = "read_row"
  /\ row = file.height
  /\ opened' = {}
  /\ Go(IF mode = Tester THEN "round" ELSE "transform")
  /\ UNCHANGED <<mode, file, pos, live, source, result, row, round, twice, out>>

-----------------------------------------------------------------------------
(* transform.c: the pixels of the result, given those of the source        *)

wrong_dest_idx(w, h, i, j) == (h - i) + j * h
dest_idx(w, h, i, j) == (h - i - 1) + j * h

rotated(w, h, px) ==
  LET writes == {<<dest_idx(w, h, i, j), i * w + j>> : i \in 0..h - 1, j \in 0..w - 1}
  IN  [k \in 0..w * h - 1 |->
        IF \E wr \in writes : wr[1] = k
        THEN px[(CHOOSE wr \in writes : wr[1] = k)[2]]
        ELSE <<Undefined, Undefined, Undefined>>]

(* One channel of sepia_pixel: the matrix row of the channel times the     *)
(* whole pixel, here named by any of its bytes.                            *)
Sepia1(c, pixel) == IF pixel[1][1] = "file" THEN Sepia(c, pixel[1][3]) ELSE pixel[1]

sepia_pixel(pixel) == [i \in 1..3 |-> Sepia1(Channels[i], pixel)]

(* sepia_asm_helper at pixel first: group g loads two pixels, those at     *)
(* byte 6 * g, spreads them over four lanes and stores four bytes at       *)
(* 4 * g; the rotated matrix makes byte n channel n % 3.                   *)
Patterns == << <<0, 0, 0, 1>>, <<0, 0, 1, 1>>, <<0, 1, 1, 1>> >>

helper_byte(px, first, n) ==
  LET g == n \div 4
      p == first + 2 * g + Patterns[g + 1][(n % 4) + 1]
  IN  IF p \in DOMAIN px THEN Sepia1(Channels[(n % 3) + 1], px[p]) ELSE Outside

vector_pixels(total) == (total \div 4) * 4

sepia_asm(px, total) ==
  [k \in 0..total - 1 |->
     IF k < vector_pixels(total)
     THEN [c \in 1..3 |-> helper_byte(px, k - (k % 4), 3 * (k % 4) + c - 1)]
     ELSE sepia_pixel(px[k])]

sepia_c(px, total) == [k \in 0..total - 1 |-> sepia_pixel(px[k])]

Transformed(how) ==
  LET w == live[source].width  h == live[source].height
      px == live[live[source].data].px
  IN  CASE how = "r" -> rotated(w, h, px)
        [] how = "c" -> sepia_c(px, w * h)
        [] how = "a" -> sepia_asm(px, w * h)

(* create_image, NULL for an empty picture, and the loops.                 *)
Create(how, w, h) ==
  \/ /\ w > 0 /\ h > 0
     /\ \E s \in FreeBlocks : \E d \in FreeBlocks \ {s} :
          /\ result' = s
          /\ live' = [x \in DOMAIN live \cup {s, d} |->
                        IF x = s THEN image(w, h, d)
                        ELSE IF x = d THEN pixels(Transformed(how)) ELSE live[x]]
  \/ result' = NULL /\ UNCHANGED live

(* ... for the source turned by rotate, or as it is.                       *)
CreateFor(how) ==
  LET im == live[source]
  IN  IF how = "r" THEN Create(how, im.height, im.width)
                   ELSE Create(how, im.width, im.height)

Transform ==
  /\ pc = "transform"
  /\ CreateFor(mode)
  /\ Go("transformed")
  /\ UNCHANGED <<mode, file, pos, opened, source, row, round, twice, out>>

TransformFails ==
  /\ pc = "transformed"
  /\ result = NULL
  /\ free_image(source)
  /\ Exit(1)
  /\ UNCHANGED <<mode, file, pos, opened, source, result, row, round, twice, out>>

-----------------------------------------------------------------------------
(* main and to_bmp: writing                                                *)

(* The bytes of n pixels.                                                  *)
Bytes(px, from, n) ==
  [i \in 1..3 * n |-> px[from + ((i - 1) \div 3)][((i - 1) % 3) + 1]]

FreeBoth == live' = Without(owned(source) \cup owned(result))

WriteFails ==
  /\ Exit(1)
  /\ FreeBoth
  /\ opened' = {}

OpenOutput ==
  /\ pc = "transformed"
  /\ result # NULL
  /\ \/ Go("write_header") /\ opened' = {"out"} /\ UNCHANGED live
     \/ WriteFails
  /\ UNCHANGED <<mode, file, pos, source, result, row, round, twice, out>>

image_size(w, h) == ((w * 3 + calc_padding(w)) * h) % U32

WriteHeader ==
  /\ pc = "write_header"
  /\ LET im == live[result]
     IN  \/ /\ out' = << <<im.width, im.height, image_size(im.width, im.height)>> >>
            /\ row' = 0
            /\ Go("write_row")
            /\ UNCHANGED <<opened, live>>
         \/ WriteFails /\ UNCHANGED <<row, out>>
  /\ UNCHANGED <<mode, file, pos, source, result, round, twice>>

(* write_row: the pixels, then, if there is any, the padding.  A write     *)
(* that fails may have written a part.                                     *)
RowBytes(im, r) ==
  Bytes(live[im.data].px, r * im.width, im.width)
    \o [i \in 1..calc_padding(im.width) |-> Zero]

WriteRow ==
  /\ pc = "write_row"
  /\ LET im == live[result]
         bytes == RowBytes(im, row)
     IN  /\ row < im.height
         /\ \/ /\ out' = out \o bytes
               /\ row' = row + 1
               /\ UNCHANGED <<pc, code, opened, live>>
            \/ /\ \E n \in 0..Len(bytes) - 1 : out' = out \o SubSeq(bytes, 1, n)
               /\ WriteFails
               /\ UNCHANGED row
  /\ UNCHANGED <<mode, file, pos, source, result, round, twice>>

WriteDone ==
  /\ pc = "write_row"
  /\ row = live[result].height
  /\ opened' = {}
  /\ FreeBoth
  /\ Exit(0)
  /\ UNCHANGED <<mode, file, pos, source, result, row, round, twice, out>>

-----------------------------------------------------------------------------
(* run_tester: a picture of each kind is made and freed, again and again   *)

rounds_left == round < Iterations

RoundC ==
  /\ pc = "round"
  /\ rounds_left
  /\ CreateFor("c")
  /\ Go("free_c")
  /\ UNCHANGED <<mode, file, pos, opened, source, row, round, twice, out>>

RoundAsm ==
  /\ pc = "asm"
  /\ CreateFor("a")
  /\ Go("free_asm")
  /\ UNCHANGED <<mode, file, pos, opened, source, row, round, twice, out>>

FreeRound ==
  /\ pc \in {"free_c", "free_asm"}
  /\ free_image(result)
  /\ result' = NULL
  /\ IF pc = "free_c" THEN Go("asm") /\ UNCHANGED round
                      ELSE Go("round") /\ round' = round + 1
  /\ UNCHANGED <<mode, file, pos, opened, source, row, twice, out>>

TesterDone ==
  /\ pc = "round"
  /\ ~rounds_left
  /\ free_image(source)
  /\ Exit(0)
  /\ UNCHANGED <<mode, file, pos, opened, source, result, row, round, twice, out>>

-----------------------------------------------------------------------------
Next ==
  \/ CheckArguments \/ OpenInput \/ AllocImage
  \/ ReadHeader \/ SeekBits \/ ReadRow \/ ReadDone
  \/ Transform \/ TransformFails
  \/ OpenOutput \/ WriteHeader \/ WriteRow \/ WriteDone
  \/ RoundC \/ RoundAsm \/ FreeRound \/ TesterDone

Spec == Init /\ [][Next]_vars

-----------------------------------------------------------------------------
(* Properties                                                              *)

(* The pixel of the file that the pixel at row r, column c of the output   *)
(* comes from, said without loops.  The rows of a BMP file go upwards, so  *)
(* that rotate is, as the ccw90 of image-transform, a counterclockwise     *)
(* turn.                                                                   *)
Stride(width) == CHOOSE n \in 3 * width .. 3 * width + 3 : n % 4 = 0

Width  == IF mode = "r" THEN file.height ELSE file.width
Height == IF mode = "r" THEN file.width ELSE file.height

PixelAt(r, c) ==
  IF mode = "r" THEN Pixel(Read, (file.height - 1 - c) * Stride(file.width) + 3 * r)
                ELSE Pixel(Sepia, r * Stride(file.width) + 3 * c)

(* A complete output file: the header, then rows of Stride(Width) bytes.   *)
Expected ==
  << <<Width, Height, Height * Stride(Width)>> >>
  \o [i \in 1..Height * Stride(Width) |->
       LET r == (i - 1) \div Stride(Width)
           c == (i - 1) % Stride(Width)
       IN  IF c < 3 * Width THEN PixelAt(r, c \div 3)[(c % 3) + 1] ELSE Zero]

(* Whatever fails and whenever, only the beginning of the right picture is *)
(* written, turned or filtered by the C code, and all of it before main    *)
(* returns 0.                                                              *)
OutputIsRight ==
  mode \in {"r", "c"} =>
    LET expected == Expected
    IN  /\ Len(out) <= Len(expected)
        /\ \A n \in DOMAIN out : out[n] = expected[n]
        /\ pc = "exited" /\ code = 0 => Len(out) = Len(expected)

(* The vector code makes of each pixel what sepia_pixel does.  The         *)
(* comments say so of every group of four bytes: "p1, p1, p1, p2",         *)
(* "p2, p2, p3, p3" and "p3, p4, p4, p4" (sepia_filter.asm:58, 61, 64) are *)
(* the pixels of the bytes that it stores.                                 *)
VectorIsSepia ==
  mode = "a" => LET expected == Expected IN \A n \in DOMAIN out : out[n] = expected[n]

(* The types of the state.                                                 *)
TypeOK ==
  /\ pc \in {"start", "open_in", "alloc", "header", "seek", "read_row", "transform",
             "transformed", "write_header", "write_row", "round", "free_c", "asm",
             "free_asm", "exited", "aborted"}
  /\ code \in {0, 1} /\ mode \in MODES /\ file \in FILES /\ pos \in Nat
  /\ opened \in {{}, {"in"}, {"out"}}
  /\ DOMAIN live \subseteq Blocks
  /\ {source, result} \subseteq Blocks \cup {NULL}
  /\ row \in Nat /\ round \in 0..Iterations /\ twice \in BOOLEAN

(* Live blocks are the two pictures' own, and the pixel block of each has  *)
(* room for its sizes; from_bmp and create_image share none.               *)
ImagesOwned ==
  /\ TypeOK
  /\ pc \notin {"exited", "aborted"} =>
    /\ DOMAIN live = owned(source) \cup owned(result)
    /\ owned(source) \cap owned(result) = {}
    /\ \A p \in {source, result} \ {NULL} : live[p].data # NULL =>
         DOMAIN live[live[p].data].px = 0..live[p].width * live[p].height - 1

(* No return leaves a block or a stream behind, whatever failed.           *)
ExitFreesAll == pc = "exited" => DOMAIN live = {} /\ opened = {}

(* malloc-impl.c says of free that it "can have arbitrary (i.e., bad!)     *)
(* effects if p has already been freed": no block is freed twice.          *)
NothingFreedTwice == ~twice
=============================================================================
