-------------------------------- MODULE Words --------------------------------
(***************************************************************************)
(* The words of a text, the way both read_word of this repository are      *)
(* meant: white space separates words, and a NUL byte is like the end.     *)
(***************************************************************************)
EXTENDS AsmStrings

Separators == Spaces \cup {NUL}

first_not(s, set) == SelectInSeq(s, LAMBDA c : c \notin set)

skip_spaces(s) ==
  IF first_not(s, Spaces) = 0 THEN << >> ELSE SubSeq(s, first_not(s, Spaces), Len(s))

FirstWord(s) ==
  LET t == Append(skip_spaces(s), NUL)
  IN  SubSeq(t, 1, SelectInSeq(t, LAMBDA c : c \in Separators) - 1)

(* What is left when a reader has taken the first word and the separator   *)
(* behind it.                                                              *)
Behind(s) ==
  LET k == Len(FirstWord(s)) + 2
  IN  SubSeq(skip_spaces(s), k, Len(skip_spaces(s)))
=============================================================================
