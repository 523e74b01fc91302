----------------------------- MODULE MCAssembler -----------------------------
(* The assembler projects, for TLC.                                        *)
EXTENDS AssemblerInvariant

(* Short texts of two letters, a space and NUL, of a letter and a space,   *)
(* of a letter and a newline, and of digits, signs, the bytes next to the  *)
(* digits and one that is negative as a byte.                              *)
Texts(bytes, length) == UNION {[1..k -> bytes] : k \in 0..length}

MCInputs ==
  Texts({97, 98, 32, 0}, 4) \cup Texts({97, 32}, 6) \cup Texts({97, 10}, 3)
    \cup Texts({43, 45, 47, 48, 57, 58, 200}, 3)

Line(word, answer) == [key |-> word, text |-> answer]

(* One word is defined twice.                                              *)
MCDefined == <<Line(<<97, 98>>, "35"), Line(<<97>>, "46"), Line(<<97, 98>>, "28"),
               Line(<<98, 97, 98>>, "17")>>
=============================================================================
