------------------------ MODULE SepiaFilterInvariant ------------------------
(***************************************************************************)
(* Inductive invariants of SepiaFilter, place by place: IInv, of who owns  *)
(* the blocks and the streams; PInv, of what is read, made and written.    *)
(***************************************************************************)
EXTENDS SepiaFilter

Early   == {"start", "open_in", "alloc"}
Reading == {"alloc", "header", "seek", "read_row"}
Writing == {"write_header", "write_row"}
Loaded  == {"seek", "read_row", "transform", "round", "asm"}
Made    == {"transformed", "free_c", "free_asm"} \cup Writing

(* The block p is a struct image, with pixels for its sizes.               *)
Picture(p) ==
  LET d == live[p].data
  IN  /\ p \in Blocks /\ d \in Blocks \ {p}
      /\ live[p].width \in Nat /\ live[p].height \in Nat
      /\ DOMAIN live[d].px = 0..live[p].width * live[p].height - 1

Pictures ==
  /\ Picture(source)
  /\ result # NULL => Picture(result) /\ owned(source) \cap owned(result) = {}
  /\ DOMAIN live = owned(source) \cup owned(result)

(* The blocks that are live: none before malloc, the struct alone until    *)
(* from_bmp has pixels for it, then one picture or two.                    *)
Memory ==
  /\ pc \in Early => source = NULL /\ DOMAIN live = {}
  /\ pc = "header" => /\ source \in Blocks /\ live[source].data = NULL
                      /\ live[source].width = 0 /\ live[source].height = 0
                      /\ DOMAIN live = {source}
  /\ pc \in Early \cup {"header"} \cup Loaded => result = NULL
  /\ pc \in Loaded \cup Made => Pictures
  /\ pc \in Writing => result # NULL
  /\ pc \in {"exited", "aborted"} => DOMAIN live = {}

Streams ==
  opened = IF pc \in Reading THEN {"in"} ELSE IF pc \in Writing THEN {"out"} ELSE {}

(* Past the arguments, the programs know what they have been asked for.    *)
Chosen ==
  /\ pc \notin {"start", "exited", "aborted"} => mode \in {"r", "c", "a", Tester}
  /\ pc = "transform" => mode # Tester

IInv ==
  /\ TypeOK /\ Memory /\ Streams /\ Chosen
  /\ pc \in {"free_c", "asm", "free_asm"} => round < Iterations

-----------------------------------------------------------------------------
(* PInv, the inductive invariant of what main's pictures and output show,  *)
(* beside IInv.                                                            *)

Asked == mode \in {"r", "c", "a"}

Px(p, w, r, c) == live[live[p].data].px[r * w + c]

(* from_bmp: the rows it has read show the file.                           *)
ReadSoFar ==
  /\ pc \in Early \cup {"header", "seek"} => pos = 0
  /\ pc \in {"seek", "read_row", "transform"} =>
       /\ live[source].width = file.width /\ live[source].height = file.height
       /\ live[live[source].data] = pixels(live[live[source].data].px)
  /\ pc = "read_row" => row <= file.height /\ pos = row * Stride(file.width)
  /\ pc = "transform" => row = file.height
  /\ pc \in {"read_row", "transform"} =>
       \A r \in 0..row - 1, c \in 0..file.width - 1 :
         Px(source, file.width, r, c) = Pixel(Read, r * Stride(file.width) + 3 * c)

(* In mode a: the bytes that the vector code stores from the second group  *)
(* on, computed of pixels that are not theirs (see VectorIsSepia).         *)
Vague(k, i) == mode = "a" /\ k < vector_pixels(Width * Height) /\ 3 * (k % 4) + i - 1 >= 4

(* transform.c: the result shows the right picture.                        *)
Transformation ==
  pc \in {"transformed"} \cup Writing =>
    /\ Asked
    /\ result # NULL =>
         /\ live[result].width = Width /\ live[result].height = Height
         /\ \A r \in 0..Height - 1, c \in 0..Width - 1, i \in 1..3 :
              \/ Vague(r * Width + c, i)
              \/ Px(result, Width, r, c)[i] = PixelAt(r, c)[i]

(* The n-th item of the output file is such a byte.                        *)
Smeared(n) ==
  /\ mode = "a" /\ n > 1
  /\ LET r == (n - 2) \div Stride(Width)
         c == (n - 2) % Stride(Width)
     IN  c < 3 * Width /\ Vague(r * Width + c \div 3, (c % 3) + 1)

Total == 1 + Height * Stride(Width)

(* The output has n parts, which are those of the right one but for the    *)
(* smeared.                                                                *)
Agrees(n) ==
  /\ out = [i \in 1..n |-> out[i]]
  /\ \A i \in 1..n : Smeared(i) \/ out[i] = Expected[i]

(* to_bmp: how much is written at each row.                                *)
Written ==
  /\ pc \notin {"write_row", "exited"} => out = << >>
  /\ pc = "write_row" => row <= Height /\ Agrees(1 + row * Stride(Width))
  /\ pc = "exited" => \E n \in 0..Total : Agrees(n)
  /\ pc = "exited" /\ code = 0 /\ Asked => Agrees(Total)

Testing == pc \in {"round", "free_c", "asm", "free_asm"} => mode = Tester

PInv == ReadSoFar /\ Transformation /\ Written /\ Testing

(* What is right of mode a's output: its sizes, the first four bytes of    *)
(* each four pixels, the pixels left over for sepia_pixel, and the padding.*)
VectorPart ==
  mode = "a" =>
    /\ Len(out) <= Len(Expected)
    /\ \A n \in DOMAIN out : Smeared(n) \/ out[n] = Expected[n]
    /\ pc = "exited" /\ code = 0 => Len(out) = Len(Expected)

(* The pictures whose size in bytes biSizeImage can say.                   *)
SizesFit ==
  \A f \in FILES : f.height * Stride(f.width) < U32 /\ f.width * Stride(f.height) < U32
=============================================================================
