-------------------------- MODULE AssemblerInvariant --------------------------
(***************************************************************************)
(* The inductive invariants of the two assembler projects: where the loop  *)
(* of each read_word is in the first word, and what find_word has seen.    *)
(***************************************************************************)
EXTENDS Assembler

(* The first n bytes of t belong to a word, and are what buffer holds.     *)
InWord(t, n, buffer) ==
  /\ n <= Len(t)
  /\ \A i \in 1..n : t[i] \notin Separators /\ buffer[i - 1] = t[i]

After(t, n) == SubSeq(t, n + 1, Len(t))

-----------------------------------------------------------------------------
(* io-library                                                              *)

IoTypes ==
  /\ pc \in {"call", "all_spaces", "word", "done"}
  /\ stdin \in Seq(0..255) /\ at_call \in Seq(0..255)
  /\ DOMAIN buf = 0..SIZE + 1
  /\ rbx \in 0..SIZE /\ rdx \in 0..SIZE

(* While the white space is skipped, the first word of what is left is     *)
(* that of the text; in the word, its rbx bytes are in the buffer and the  *)
(* rest is what is left.                                                   *)
IoReading ==
  failed = "no" =>
    LET t == skip_spaces(at_call)
    IN  /\ pc = "all_spaces" => rbx = 0 /\ skip_spaces(stdin) = t
        /\ pc = "word" => InWord(t, rbx, buf) /\ stdin = After(t, rbx)

(* At most one byte behind the buffer is written, and that one is NUL, the *)
(* terminator of a word as long as the buffer.                             *)
OneByteTooFar == buf[SIZE] \in {Untouched, NUL} /\ buf[SIZE + 1] = Untouched

(* What WordsInOrder says, and of the words that it leaves open: the code  *)
(* takes one as long as the buffer.                                        *)
WordsRead ==
  /\ pc = "done" => ~rax /\ rdx = 0
  /\ failed = "no" =>
    /\ pc = "call" /\ rax =>
         /\ rdx = Len(FirstWord(at_call)) /\ buf[rdx] = NUL /\ string = FirstWord(at_call)
         /\ stdin = Behind(at_call)
    /\ pc = "done" =>
         \/ FirstWord(at_call) = << >>
         \/ Len(FirstWord(at_call)) > SIZE

IoInv ==
  /\ IoTypes
  /\ IoReading
  /\ OneByteTooFar
  /\ WordsRead

-----------------------------------------------------------------------------
(* dictionary                                                              *)

DictTypes ==
  /\ dpc \in {"read_word", "find_word", "exit"}
  /\ input \in Seq(0..255) /\ pos \in 0..Len(input)
  /\ DOMAIN BUF = 0..BUF_SIZE
  /\ r14 \in 0..D!size

(* A call of read that fails ends the word, so in the loop none has.       *)
DictReading ==
  dpc = "read_word" =>
    LET t == skip_spaces(input)
    IN  /\ ~dfailed /\ stdout = D!NONE /\ stderr = D!NONE
        /\ r14 = 0 => skip_spaces(After(input, pos)) = t
        /\ r14 > 0 => InWord(t, r14, BUF) /\ After(input, pos) = After(t, r14)

(* The entries that find_word has passed have other keys.                  *)
Finding ==
  dpc = "find_word" =>
    LET t == skip_spaces(input)
    IN  /\ stdout = D!NONE /\ stderr = D!NONE
        /\ InWord(t, r14, BUF) /\ BUF[r14] = NUL
        /\ ~dfailed => FirstWord(input) = SubSeq(t, 1, r14)
        /\ entry \in 1..Len(D!DICT)
        /\ \A j \in 1..entry - 1 : D!DICT[j].key # SubSeq(t, 1, r14)

(* What FindsDefinition says, with the messages, and of the word that it   *)
(* leaves open: one as long as size is answered or refused.                *)
Reply(word) ==
  IF D!Lines(word) = {} THEN stdout = D!NONE /\ stderr = D!err_msg2
  ELSE stdout = D!Defines(word) /\ stderr = D!NONE

TooLong == stdout = D!NONE /\ stderr = D!err_msg1

Replies ==
  /\ dpc = "find_word" => D!IsPrefix(D!string, D!FirstWord(input))
  /\ dpc = "exit" /\ ~dfailed =>
       LET word == D!FirstWord(input)
       IN  /\ Len(word) < D!size => Reply(word)
           /\ Len(word) = D!size => Reply(word) \/ TooLong
           /\ Len(word) > D!size => TooLong

DictInv ==
  /\ DictTypes
  /\ DictReading
  /\ Finding
  /\ D!BufferKept
  /\ Replies
=============================================================================
