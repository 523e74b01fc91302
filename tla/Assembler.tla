------------------------------ MODULE Assembler ------------------------------
(***************************************************************************)
(* The two assembler projects: the program of dictionary is run, and then  *)
(* a caller of io-library's read_word.  They share nothing, so one of them *)
(* has an empty stdin.  The text that the caller's stdin starts with is    *)
(* also what the string and number functions of both libraries are called  *)
(* with.                                                                   *)
(***************************************************************************)
EXTENDS IoLibrary

CONSTANTS BUF_SIZE, DEFINED

ASSUME BufferAssumption == BUF_SIZE \in Nat \ {0}

(* The macro colon ends a key, a string, with a NUL; words.inc has a line. *)
ASSUME DefinedAssumption ==
  /\ DEFINED \in Seq([key : Seq(1..255), text : STRING])
  /\ DEFINED # << >>

VARIABLES dpc, input, pos, BUF, r14, entry, stdout, stderr, status, dfailed

dvars == <<dpc, input, pos, BUF, r14, entry, stdout, stderr, status, dfailed>>

D == INSTANCE Dictionary WITH pc <- dpc, failed <- dfailed

AsmInit == Init /\ ((stdin = << >> /\ D!Init) \/ (input = << >> /\ D!Init))

Reads(step) == dpc = "exit" /\ step /\ UNCHANGED dvars

AsmNext == \/ D!ReadWord /\ UNCHANGED vars
           \/ D!FindWord /\ UNCHANGED vars
           \/ Reads(Call) \/ Reads(AllSpaces) \/ Reads(Word)

AsmSpec ==
  AsmInit /\ [][AsmNext]_<<vars, dvars>> /\ WF_<<vars, dvars>>(AsmNext)

-----------------------------------------------------------------------------
(* At the start, text is what the functions are called with.               *)
Start == pc = "call" /\ dpc = "read_word" /\ pos = 0 /\ at_call = stdin /\ rbx = 0 /\ ~rax

text == stdin

(* What print_int writes, parse_int of either library reads back, and what *)
(* print_uint writes, parse_uint does: for the smallest number too, whose  *)
(* negation is itself.                                                     *)
RoundTrip(number) ==
  /\ io_parse_int(print_int(number)) = Result(number, Len(print_int(number)))
  /\ dict_parse_int(print_int(number)) = Result(number, Len(print_int(number)))
  /\ parse_uint(print_uint(number)) = Result(number, Len(print_uint(number)))

(* parse_uint reads the longest run of digits at the beginning, as the     *)
(* number it denotes modulo the register.                                  *)
Digits == ZERO..ZERO + 9

Denotes(s) ==
  LET value[k \in 0..Len(s)] == IF k = 0 THEN 0 ELSE (s[k] - ZERO) + 10 * value[k - 1]
  IN  value[Len(s)]

ParsesRun(s) ==
  LET k == parse_uint(s).rdx
  IN  /\ \A i \in 1..k : s[i] \in Digits
      /\ byte(s, k + 1) \notin Digits
      /\ parse_uint(s).rax = Denotes(SubSeq(s, 1, k)) % register

(* Numbers are read as they are written: any text by parse_uint, and what  *)
(* either library prints by itself, up to the ends of a register.          *)
NumbersRead ==
  Start => /\ ParsesRun(text)
           /\ text = << >> => \A number \in 0..register - 1 : RoundTrip(number)

(* The copy of dictionary never leaves the buffer and succeeds exactly     *)
(* when string and terminator fit; that of io-library agrees with it but   *)
(* for a string as long as the buffer, of which one byte goes too far.     *)
CopiesWhatFits ==
  Start => \A size \in 0..5 :
    LET io == io_string_copy(text, size)  dict == dict_string_copy(text, size)
    IN  /\ Len(dict.written) <= size
        /\ (dict.rax # 0) = (Len(text) + 1 <= size)
        /\ dict.rax # 0 => dict.written = Append(text, NUL) /\ io.written = dict.written
        /\ Len(io.written) > size => Len(text) = size /\ Len(io.written) = size + 1

(* The dictionary's read_word writes no byte behind its buffer (see        *)
(* BufferKept of Dictionary).                                              *)
DictionaryBufferKept == D!BufferKept

(* The dictionary answers what words.inc defines (see FindsDefinition).    *)
DictionaryAnswers == D!FindsDefinition

(* Each call of read_word returns, and the dictionary ends.                *)
ReadersReturn == CallReturns /\ D!Ends
-----------------------------------------------------------------------------
(* What tests and comments say and the code does not do; MCAssemblerTests  *)
(* is an instance in which each of these fails.                            *)

(* io-library/test.py:378-379: a word of more bytes than the buffer has,   *)
(* its terminator counted, makes read_word fail.  The code compares before *)
(* it stores a byte of the word, not before it stores the terminator, so   *)
(* that it takes a word as long as the buffer and writes one byte behind.  *)
LongWordsFail == pc = "call" /\ rax => rdx < SIZE

(* dictionary/lib.asm:146: read_word returns 0 if the word is too large    *)
(* for the buffer.  The code also refuses one of size bytes at the end of  *)
(* the text, where it looks at the size before the end; in front of white  *)
(* space it takes it.                                                      *)
LongestWordTaken ==
  dpc = "exit" /\ ~dfailed /\ stderr = D!err_msg1 => Len(FirstWord(input)) > D!size

(* dictionary/lib.asm:219: parse_int returns the length 0 if there is no   *)
(* number to read.  The code counts a sign without digits.                 *)
NoNumberNoLength ==
  Start /\ text # << >> /\ parse_uint(IF signed(text) THEN Tail(text) ELSE text).rdx = 0
    => dict_parse_int(text).rdx = 0
=============================================================================
