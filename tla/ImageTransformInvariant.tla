----------------------- MODULE ImageTransformInvariant ----------------------
(* IInv, the inductive invariant of image-transform: what is true at each  *)
(* place of the program, with which HeapOwned, StreamsClosed and           *)
(* SuccessFreesAll follow from one step to the next; and PInv, of what the *)
(* pictures show.                                                          *)
EXTENDS ImageTransform

Before  == {"start", "open_in", "header", "create"}
Reading == {"header", "create", "read_row", "read_skip"}
Writing == {"write_header", "write_row", "write_padding"}

(* The stream that is open is the one the place is about.                  *)
Streams ==
  opened = IF pc \in Reading THEN {"in"}
           ELSE IF pc \in Writing THEN {"out"} ELSE {}

(* Blocks appear with the picture, and rotate_image's only while it runs.  *)
Pictures ==
  /\ pc \in Before => DOMAIN heap = {} /\ img = NoImage /\ row = 0
  /\ ~Finished /\ pc # "rotate" => rotated = NoImage
  /\ pc = "rotate" => /\ rotated.width = img.height
                      /\ rotated.height = img.width
                      /\ rotated.data = NULL => row = 0

(* A transformation under way is still the first of those to do.           *)
Work == pc \in {"flip", "rotate"} => todo # << >>

(* The bytes the rows before row k of the file take, their pixels at least *)
(* being there.                                                            *)
Held(k) ==
  k > 0 /\ file.width > 0 =>
    (k - 1) * Stride(file.width) + 3 * file.width <= file.bytes

(* How far from_bmp has come, in the picture and in the file.              *)
Progress ==
  /\ pc \in {"read_row", "read_skip"} =>
       /\ img.width = file.width /\ img.height = file.height
       /\ img.data # NULL
       /\ row <= file.height
       /\ Held(row)
  /\ pc = "read_row"  => pos = row * Stride(file.width)
  /\ pc = "read_skip" => /\ pos = row * Stride(file.width) + 3 * file.width
                         /\ row < file.height
                         /\ Held(row + 1)
  /\ "out" \in opened \/ out # << >> \/ pc \in {"transform", "flip", "rotate"} =>
       Held(file.height)
  /\ pc \in Before \cup Reading => out = << >>
  /\ pc \in Before => pos = 0

IInv ==
  /\ TypeOK
  /\ HeapOwned
  /\ Streams
  /\ Pictures
  /\ Work
  /\ Progress
  /\ SuccessFreesAll

-----------------------------------------------------------------------------
(* PInv, the inductive invariant of what the pictures and the output       *)
(* show, beside IInv: where the pixel of each place came from, at every    *)
(* turn of every loop.                                                     *)

Chosen == {"transform", "flip", "rotate"} \cup Writing

(* What is left to apply is an end of what the parameter asks for.         *)
Stage ==
  /\ pc \in Chosen =>
       /\ param \in DOMAIN Steps
       /\ \/ todo \in {Steps[param], << >>}
          \/ param = "flipv" /\ todo \in {<<"ccw", "ccw">>, <<"ccw">>}
  /\ pc = "flip" => Head(todo) = "flip"
  /\ pc = "rotate" => Head(todo) \in {"ccw", "cw"}
  /\ pc \in Writing => todo = << >>

Midway == param = "flipv" /\ todo = <<"ccw">>

OnItsSide == Midway \/ (Turned /\ todo = << >>)

(* With `todo` left, where the pixel at (r, c) came from.                  *)
Came(r, c) ==
  CASE todo = << >>             -> Source(r, c)
    [] Midway                   -> <<file.height - 1 - c, file.width - 1 - r>>
    [] todo = <<"ccw", "ccw">>  -> <<r, file.width - 1 - c>>
    [] OTHER                    -> <<r, c>>

Sized ==
  pc \in Chosen =>
    /\ img.width  = IF OnItsSide THEN file.height ELSE file.width
    /\ img.height = IF OnItsSide THEN file.width ELSE file.height

Cell(im, i) == heap[im.data][i]

Rows    == 0..img.height - 1
Columns == 0..img.width - 1

(* The places a loop has passed.                                           *)
Passed(r, c) == r < row \/ (r = row /\ c < col)

InLoop(w, h) == row <= h /\ (row < h /\ w > 0 => col < w)

ReadSoFar ==
  pc \in {"read_row", "read_skip"} =>
    \A r \in Rows, c \in Columns :
      r < row \/ (r = row /\ pc = "read_skip") =>
        Cell(img, r * img.width + c) = Place(<<r, c>>)

Flipped(r, c) == r < row \/ (r = row /\ (c < col \/ c > img.width - 1 - col))

FlippedSoFar ==
  pc = "flip" =>
    /\ InLoop(img.width \div 2, img.height)
    /\ \A r \in Rows, c \in Columns :
         Cell(img, r * img.width + c) =
           Place(<<r, IF Flipped(r, c) THEN img.width - 1 - c ELSE c>>)

Shown ==
  pc \in Chosen \ {"flip"} =>
    \A r \in Rows, c \in Columns : Cell(img, r * img.width + c) = Place(Came(r, c))

(* The place in rotate_image's picture of the pixel at (r, c).             *)
Target(r, c) ==
  IF Head(todo) = "ccw" THEN c * img.height + (img.height - 1 - r)
                        ELSE (img.width - 1 - c) * img.height + r

RotatedSoFar ==
  pc = "rotate" =>
    /\ InLoop(img.width, img.height)
    /\ rotated.data # NULL =>
         \A r \in Rows, c \in Columns :
           Passed(r, c) => Cell(rotated, Target(r, c)) = Place(Came(r, c))

(* The right output, and its first n parts: the header, then pixels and    *)
(* bytes of padding.                                                       *)
Right == Expected(Source)

Beginning(n) == [i \in 1..n |-> Right[i]]

RowLength == Stride(Width) - 2 * Width  \* pixels and bytes of padding

Total == 1 + Height * RowLength

Written ==
  /\ pc \notin Writing \cup {"exited"} => out = << >>
  /\ pc = "write_header" => out = << >>
  /\ pc = "write_row" =>
       row <= Height /\ out = Beginning(1 + row * RowLength)
  /\ pc = "write_padding" =>
       row < Height /\ out = Beginning(1 + row * RowLength + Width)
  /\ pc = "exited" => \E n \in 0..Total : out = Beginning(n)
  /\ Succeeded => out = Beginning(Total)

PInv ==
  /\ Stage /\ Sized
  /\ ReadSoFar /\ FlippedSoFar /\ Shown /\ RotatedSoFar
  /\ Written
=============================================================================
