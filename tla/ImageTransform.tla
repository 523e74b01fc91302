--------------------------- MODULE ImageTransform ---------------------------
(***************************************************************************)
(* The program image-transform: main.c, the reading and writing of         *)
(* bmp_format.c and the transformations of rotation.c, from the first      *)
(* argument to the exit status.  Every call of the C library may fail.     *)
(***************************************************************************)
EXTENDS Image, SequencesExt

CONSTANTS
  FILES,   \* input files: [width, height, bytes], bytes after the header
  PARAMS,  \* third arguments; Absent when there are fewer
  U64      \* what a uint64_t and a size_t wrap at

Absent == "absent"

ASSUME FilesAssumption ==
  FILES \subseteq [width : Nat, height : Nat, bytes : Nat]

(* The bytes that image.c:4 asks malloc for can be said in a size_t:       *)
(* malloc gives room for what was meant, or fails.                         *)
ASSUME ProductsAssumption ==
  U64 \in Nat /\ \A f \in FILES : 3 * (f.width * f.height) < U64

VARIABLES
  pc,       \* where the program is
  code,     \* exit status, once pc is "exited"
  status,   \* last read_status or write_status that is not OK, or "OK"
  failed,   \* a call of the C library has failed
  param,    \* the third argument
  file,     \* the input file
  pos,      \* position of `in`, in bytes after the header
  opened,   \* the streams that are open: "in", "out"
  heap,     \* live blocks of the C heap
  img,      \* main's struct image
  rotated,  \* rotate_image's struct image
  row, col, \* the loop variables
  todo,     \* transformations still to be applied
  out       \* what is written to `out`: the header, then pixels and padding

control == <<pc, code, status, failed>>
input   == <<param, file, pos>>
memory  == <<heap, img, rotated>>
loops   == <<row, col, todo>>
vars    == <<control, input, opened, memory, loops, out>>

Steps ==  \* what main applies for each parameter it knows
  [none  |-> << >>,      fliph |-> <<"flip">>,
   flipv |-> <<"flip", "ccw", "ccw">>,
   ccw90 |-> <<"ccw">>,  cw90  |-> <<"cw">>]

Init ==
  /\ pc = "start" /\ code = 0 /\ status = "OK" /\ failed = FALSE
  /\ param \in PARAMS
  /\ file \in FILES
  /\ pos = 0
  /\ opened = {}
  /\ heap = [b \in {} |-> << >>] /\ img = NoImage /\ rotated = NoImage
  /\ row = 0 /\ col = 0 /\ todo = << >>
  /\ out = << >>

-----------------------------------------------------------------------------
(* main, before the picture is read                                        *)

Go(label) == pc' = label /\ UNCHANGED <<code, status>>

Exit(c) == pc' = "exited" /\ code' = c

wrong_ReadFails(s) ==  \* a second return, without fclose
  /\ Exit(12)
  /\ status' = s
  /\ UNCHANGED opened

(* return 12: the stream is closed, and that is all.                       *)
ReadFails(s) ==
  /\ Exit(12)
  /\ status' = s
  /\ opened' = opened \ {"in"}

CheckArguments ==
  /\ pc = "start"
  /\ IF param = Absent THEN Exit(1) /\ UNCHANGED status ELSE Go("open_in")
  /\ UNCHANGED <<failed, input, opened, memory, loops, out>>

OpenInput ==
  /\ pc = "open_in"
  /\ \/ Go("header") /\ opened' = opened \cup {"in"} /\ UNCHANGED failed
     \/ Exit(2) /\ failed' = TRUE /\ UNCHANGED <<status, opened>>
  /\ UNCHANGED <<input, memory, loops, out>>

-----------------------------------------------------------------------------
(* from_bmp                                                                *)

ReadHeader ==
  /\ pc = "header"
  /\ \/ Go("create") /\ UNCHANGED <<failed, opened>>
     \/ ReadFails("READ_INVALID_HEADER") /\ failed' = TRUE
  /\ UNCHANGED <<input, memory, loops, out>>

(* Sizes as in ProductsAssumption, so that the pixels are width * height.  *)
CreateImage ==
  /\ pc = "create"
  /\ \/ /\ \E b \in Free(heap) :
             /\ heap' = malloc(heap, b, file.width * file.height)
             /\ img' = [width |-> file.width, height |-> file.height, data |-> b]
        /\ row' = 0
        /\ Go("read_row")
        /\ UNCHANGED <<failed, opened>>
     \/ /\ ReadFails("ALLOCATION_ERROR")
        /\ failed' = TRUE
        /\ UNCHANGED <<heap, img, row>>
  /\ UNCHANGED <<input, rotated, col, todo, out>>

(* Whole pixels fread gets for a row: what the file still holds, or fewer  *)
(* when reading itself fails.                                              *)
Available == IF pos < file.bytes THEN (file.bytes - pos) \div 3 ELSE 0

FreadCounts == {n \in 0..img.width : n <= Available}

wrong_count_is_width(n) == n > 0 \/ img.width = 0  \* a short row will do
count_is_width(n) == n = img.width

ReadRow ==
  /\ pc = "read_row"
  /\ row < img.height
  /\ \E n \in FreadCounts :
       /\ heap' = [heap EXCEPT ![img.data] =
            [i \in DOMAIN @ |-> IF i \in img.width * row .. img.width * row + n - 1
                                THEN pos + 3 * (i - img.width * row) ELSE @[i]]]
       /\ pos' = pos + 3 * n
       /\ IF count_is_width(n)
          THEN Go("read_skip") /\ UNCHANGED <<failed, opened>>
          ELSE ReadFails("READ_INVALID_BITS") /\ failed' = TRUE
  /\ UNCHANGED <<param, file, img, rotated, loops, out>>

(* fseek may go past the end of the file.                                  *)
SkipPadding ==
  /\ pc = "read_skip"
  /\ \/ /\ pos' = pos + get_padding(img.width)
        /\ row' = row + 1
        /\ Go("read_row")
        /\ UNCHANGED <<failed, opened>>
     \/ /\ ReadFails("FSEEK_ERROR")
        /\ failed' = TRUE
        /\ UNCHANGED <<pos, row>>
  /\ UNCHANGED <<param, file, memory, col, todo, out>>

(* READ_OK, and main chooses.                                              *)
ReadDone ==
  /\ pc = "read_row"
  /\ row = img.height
  /\ opened' = opened \ {"in"}
  /\ IF param \in DOMAIN Steps
     THEN todo' = Steps[param] /\ Go("transform")
     ELSE Exit(1) /\ UNCHANGED <<status, todo>>  \* unknown_param
  /\ UNCHANGED <<failed, input, memory, row, col, out>>

-----------------------------------------------------------------------------
(* rotation.c                                                              *)

(* The loops for (row < h) for (col < w), started and moved on.            *)
Begin == row' = 0 /\ col' = 0

Over(w, h) == row = h \/ w = 0

wrong_Advance(w) ==  \* the row is not counted
  IF col + 1 < w THEN col' = col + 1 /\ row' = row
                 ELSE col' = 0 /\ row' = row

Advance(w) ==
  IF col + 1 < w THEN col' = col + 1 /\ row' = row
                 ELSE col' = 0 /\ row' = row + 1

StartFlip ==
  /\ pc = "transform"
  /\ todo # << >> /\ Head(todo) = "flip"
  /\ Begin
  /\ Go("flip")
  /\ UNCHANGED <<failed, input, opened, memory, todo, out>>

(* The exchange of two pixels: the right one goes left, then the saved one *)
(* goes right.                                                             *)
swap(left, right) ==
  LET temp  == get_pixel(heap, img, left)
      moved == set_pixel(heap, img, left, get_pixel(heap, img, right))
  IN  set_pixel(moved, img, right, temp)

Flip ==
  /\ pc = "flip"
  /\ ~Over(img.width \div 2, img.height)
  /\ heap' = swap(row * img.width + col, row * img.width + (img.width - col - 1))
  /\ Advance(img.width \div 2)
  /\ UNCHANGED <<control, input, opened, img, rotated, todo, out>>

FlipDone ==
  /\ pc = "flip"
  /\ Over(img.width \div 2, img.height)
  /\ todo' = Tail(todo)
  /\ Go("transform")
  /\ UNCHANGED <<failed, input, opened, memory, row, col, out>>

(* rotate_image does not look at what malloc returned.                     *)
StartRotate ==
  /\ pc = "transform"
  /\ todo # << >> /\ Head(todo) \in {"ccw", "cw"}
  /\ \/ \E b \in Free(heap) :
          /\ heap' = malloc(heap, b, img.height * img.width)
          /\ rotated' = [width |-> img.height, height |-> img.width, data |-> b]
          /\ UNCHANGED failed
     \/ /\ rotated' = [width |-> img.height, height |-> img.width, data |-> NULL]
        /\ failed' = TRUE
        /\ UNCHANGED heap
  /\ Begin
  /\ Go("rotate")
  /\ UNCHANGED <<input, opened, img, todo, out>>

wrong_new_index(direction) ==  \* off by one for direction 1
  IF direction = 1 THEN col * rotated.width + (img.height - row)
                   ELSE (img.width - col - 1) * rotated.width + row

(* Where the pixel at (row, col) goes: direction 1 is counter-clockwise.   *)
new_index(direction) ==
  IF direction = 1 THEN col * rotated.width + (img.height - row - 1)
                   ELSE (img.width - col - 1) * rotated.width + row

direction == IF Head(todo) = "ccw" THEN 1 ELSE 0

Rotate ==
  /\ pc = "rotate"
  /\ ~Over(img.width, img.height)
  /\ rotated.data # NULL
  /\ heap' = set_pixel(heap, rotated, new_index(direction),
                       get_pixel(heap, img, row * img.width + col))
  /\ Advance(img.width)
  /\ UNCHANGED <<control, input, opened, img, rotated, todo, out>>

(* The first store goes through NULL, and the process is killed.           *)
RotateCrash ==
  /\ pc = "rotate"
  /\ ~Over(img.width, img.height)
  /\ rotated.data = NULL
  /\ Go("crashed")
  /\ UNCHANGED <<failed, input, opened, memory, loops, out>>

wrong_RotateDone ==  \* the old pixels are not freed
  /\ pc = "rotate"
  /\ Over(img.width, img.height)
  /\ img' = rotated
  /\ rotated' = NoImage
  /\ todo' = Tail(todo)
  /\ Go("transform")
  /\ UNCHANGED <<failed, input, opened, heap, row, col, out>>

RotateDone ==
  /\ pc = "rotate"
  /\ Over(img.width, img.height)
  /\ heap' = free(heap, img.data)
  /\ img' = rotated
  /\ rotated' = NoImage
  /\ todo' = Tail(todo)
  /\ Go("transform")
  /\ UNCHANGED <<failed, input, opened, row, col, out>>

-----------------------------------------------------------------------------
(* main and to_bmp: writing                                                *)

(* return 1: the stream is closed, the pixels are not freed.               *)
WriteFails(s) ==
  /\ Exit(1)
  /\ status' = s
  /\ opened' = opened \ {"out"}

OpenOutput ==
  /\ pc = "transform"
  /\ todo = << >>
  /\ \/ /\ opened' = opened \cup {"out"}
        /\ out' = << >>
        /\ Go("write_header")
        /\ UNCHANGED failed
     \/ /\ Exit(1)
        /\ failed' = TRUE
        /\ UNCHANGED <<status, opened, out>>
  /\ UNCHANGED <<input, memory, loops>>

header(im) ==
  [width |-> im.width, height |-> im.height,
   biSizeImage |-> im.height * (im.width * 3 + get_padding(im.width))]

wrong_rows_left == row + 1 < img.height
rows_left == row < img.height

WriteHeader ==
  /\ pc = "write_header"
  /\ \/ /\ out' = <<header(img)>>
        /\ row' = 0
        /\ Go("write_row")
        /\ UNCHANGED <<failed, opened>>
     \/ /\ WriteFails("WRITE_HEADER_ERROR")
        /\ failed' = TRUE
        /\ UNCHANGED <<out, row>>
  /\ UNCHANGED <<input, memory, col, todo>>

Pixels(r) == [i \in 1..img.width |-> heap[img.data][r * img.width + i - 1]]

WriteRow ==
  /\ pc = "write_row"
  /\ rows_left
  /\ \/ /\ out' = out \o Pixels(row)
        /\ Go("write_padding")
        /\ UNCHANGED <<failed, opened>>
     \/ /\ img.width > 0
        /\ WriteFails("WRITE_PIXELS_ERROR")
        /\ failed' = TRUE
        /\ UNCHANGED out
  /\ UNCHANGED <<input, memory, loops>>

Pad == -3  \* a byte of padding

(* fwrite of one object of no bytes writes nothing and returns 0, which    *)
(* to_bmp takes for a failure.                                             *)
WritePadding ==
  /\ pc = "write_padding"
  /\ \/ /\ get_padding(img.width) > 0
        /\ out' = out \o [i \in 1..get_padding(img.width) |-> Pad]
        /\ row' = row + 1
        /\ Go("write_row")
        /\ UNCHANGED <<failed, opened>>
     \/ /\ get_padding(img.width) = 0
        /\ WriteFails("WRITE_PADDING_ERROR")
        /\ UNCHANGED <<failed, out, row>>
     \/ /\ get_padding(img.width) > 0
        /\ WriteFails("WRITE_PADDING_ERROR")
        /\ failed' = TRUE
        /\ UNCHANGED <<out, row>>
  /\ UNCHANGED <<input, memory, col, todo>>

destroy_image == free(heap, img.data)

WriteDone ==
  /\ pc = "write_row"
  /\ ~rows_left
  /\ opened' = opened \ {"out"}
  /\ IF img.data = NULL
     THEN UNCHANGED <<heap, img>>
     ELSE heap' = destroy_image /\ img' = [img EXCEPT !.width = 0, !.height = 0]
  /\ Exit(0)
  /\ UNCHANGED <<status, failed, input, rotated, loops, out>>

-----------------------------------------------------------------------------
Read == CheckArguments \/ OpenInput \/ ReadHeader \/ CreateImage \/ ReadRow
          \/ SkipPadding \/ ReadDone

Transform == StartFlip \/ Flip \/ FlipDone
               \/ StartRotate \/ Rotate \/ RotateCrash \/ RotateDone

Write == OpenOutput \/ WriteHeader \/ WriteRow \/ WritePadding \/ WriteDone

Next == Read \/ Transform \/ Write

Spec == Init /\ [][Next]_vars

FairSpec == Spec /\ WF_vars(Next)

-----------------------------------------------------------------------------
(* Properties                                                              *)

Labels == {"start", "open_in", "header", "create", "read_row", "read_skip",
           "transform", "flip", "rotate", "write_header", "write_row",
           "write_padding", "exited", "crashed"}

Statuses == {"OK", "READ_INVALID_HEADER", "READ_INVALID_BITS", "FSEEK_ERROR",
             "ALLOCATION_ERROR", "WRITE_HEADER_ERROR", "WRITE_PIXELS_ERROR",
             "WRITE_PADDING_ERROR"}

Image == [width : Nat, height : Nat, data : Blocks \cup {NULL}]

(* Every variable keeps its type.                                          *)
TypeOK ==
  /\ pc \in Labels /\ code \in {0, 1, 2, 12} /\ status \in Statuses
  /\ failed \in BOOLEAN
  /\ param \in PARAMS /\ file \in FILES /\ pos \in Nat
  /\ opened \subseteq {"in", "out"}
  /\ DOMAIN heap \subseteq Blocks
  /\ img \in Image /\ rotated \in Image
  /\ row \in Nat /\ col \in Nat
  /\ todo \in Seq({"flip", "ccw", "cw"})

(* The picture the parameter asks for, said without loops: its size, and   *)
(* the place in the input the pixel of each place comes from.  Rows are    *)
(* counted from the bottom, as the file has them.                          *)
Turned == param \in {"ccw90", "cw90"}

Width  == IF Turned THEN file.height ELSE file.width
Height == IF Turned THEN file.width ELSE file.height

Source(r, c) ==
  CASE param = "fliph" -> <<r, file.width - 1 - c>>
    [] param = "flipv" -> <<file.height - 1 - r, c>>
    [] param = "ccw90" -> <<file.height - 1 - c, r>>
    [] param = "cw90"  -> <<c, file.width - 1 - r>>
    [] OTHER           -> <<r, c>>

(* Bytes of a row in a file, and the place of a pixel of the input.        *)
Stride(width) == CHOOSE n \in 3 * width .. 3 * width + 3 : n % 4 = 0

Place(rc) == rc[1] * Stride(file.width) + 3 * rc[2]

(* What a complete output file of the picture `source` holds: the header,  *)
(* then the rows, pixels first.                                            *)
Expected(source(_, _)) ==
  LET pads  == Stride(Width) - 3 * Width
      cells == Width + pads
      Cell(i) == LET r == i \div cells  c == i % cells
                 IN  IF c < Width THEN Place(source(r, c)) ELSE Pad
  IN  <<[width |-> Width, height |-> Height,
         biSizeImage |-> Height * Stride(Width)]>>
      \o [i \in 1..Height * cells |-> Cell(i - 1)]

Finished == pc \in {"exited", "crashed"}
Succeeded == pc = "exited" /\ code = 0

(* Whatever fails and whenever, the output file never holds anything but   *)
(* the beginning of the right picture: no pixel lost or copied twice by a  *)
(* loop of rotation.c, none that malloc left undefined.                    *)
OutputIsPrefix == IsPrefix(out, Expected(Source))

(* A main that returns 0 has freed all pixels, through any transformation. *)
SuccessFreesAll == Succeeded => DOMAIN heap = {}

(* main returns 0 only when to_bmp has written all of it, and without a    *)
(* block left.                                                             *)
SuccessIsComplete == (Succeeded => out = Expected(Source)) /\ SuccessFreesAll

(* A file too short for its header's sizes never gives an output: from_bmp *)
(* counts the pixels of every row, although fseek goes past the end.       *)
ShortFileGivesNothing ==
  ("out" \in opened \/ out # << >>) /\ file.width > 0 /\ file.height > 0 =>
    (file.height - 1) * Stride(file.width) + 3 * file.width <= file.bytes

(* Until the end, the live blocks are the pixels of main's picture and of  *)
(* the one rotate_image fills, each with room for its sizes: no transform  *)
(* loses a block or keeps a pointer to a freed one, and main's picture has *)
(* no block only when it has no pixel.                                     *)
HeapOwned ==
  ~Finished =>
    /\ DOMAIN heap = {img.data, rotated.data} \ {NULL}
    /\ \A im \in {img, rotated} : im.data # NULL =>
         DOMAIN heap[im.data] = 0..im.width * im.height - 1
    /\ img.data = rotated.data => img.data = NULL
    /\ img.data = NULL => img.width * img.height = 0

(* The two streams are never open together, so that the output may be the  *)
(* input's own file, and none is open when main returns.                   *)
StreamsClosed ==
  /\ opened # {"in", "out"}
  /\ pc = "exited" => opened = {}

(* common-mistakes.md:69: what was allocated before a return with an error *)
(* code is freed in front of it.  The returns at main.c:26, 63, 70 and 77  *)
(* leave the pixels to the end of the process, as MCImageTransformLeaks,   *)
(* an instance in which this fails, shows.                                 *)
EveryReturnFrees == pc = "exited" => DOMAIN heap = {}

(* The program ends, by a return or by the signal of RotateCrash.          *)
Terminates == <>Finished

(* bmp_format.c calls the status "Failed to write padding": some call of   *)
(* the C library must have failed.                                         *)
PaddingErrorMeansFailure == status = "WRITE_PADDING_ERROR" => failed
=============================================================================
