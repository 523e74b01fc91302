------------------------------- MODULE Image --------------------------------
(***************************************************************************)
(* Pictures of image-transform (image.h, image.c): a struct image names a  *)
(* block of the C heap that holds its pixels, row by row from the bottom.  *)
(*                                                                         *)
(* A heap maps each live block to its cells.  What a pixel is does not     *)
(* matter, only where it came from: a pixel is the offset in the input     *)
(* file it was read at.                                                    *)
(***************************************************************************)
EXTENDS Integers

CONSTANTS
  NULL,   \* the pointer malloc returns when it fails
  Blocks  \* the blocks malloc can return

ASSUME BlocksAssumption == NULL \notin Blocks

Undefined     == -1  \* a cell nobody has written since malloc
default_pixel == -2  \* {0, 0, 0}, for a pixel that does not exist

NoImage == [width |-> 0, height |-> 0, data |-> NULL]  \* = {0}

Free(heap) == Blocks \ DOMAIN heap

(* malloc of room for n pixels, when it succeeds with block b.             *)
malloc(heap, b, n) ==
  [x \in DOMAIN heap \cup {b} |-> IF x = b THEN [i \in 0..n - 1 |-> Undefined]
                                           ELSE heap[x]]

free(heap, b) == [x \in DOMAIN heap \ {b} |-> heap[x]]

is_valid_index(img, i) == i < img.width * img.height

(* A store through a valid index; any other is silently dropped.           *)
set_pixel(heap, img, i, pixel) ==
  IF is_valid_index(img, i) THEN [heap EXCEPT ![img.data][i] = pixel] ELSE heap

get_pixel(heap, img, i) ==
  IF is_valid_index(img, i) THEN heap[img.data][i] ELSE default_pixel

(* Bytes after a row of `width` three-byte pixels, up to a multiple of 4   *)
(* (bmp_format.c).                                                         *)
get_padding(width) == (4 - ((width * 3) % 4)) % 4
=============================================================================
