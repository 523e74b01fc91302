------------------------------ MODULE Dictionary ------------------------------
(***************************************************************************)
(* The program of dictionary: main.asm with find_word of dict.asm,         *)
(* read_word of lib.asm and the list that words.inc builds.                *)
(***************************************************************************)
EXTENDS Words

CONSTANTS
  INPUTS,     \* what stdin may hold
  BUF_SIZE,   \* at least 1
  DEFINED,    \* the lines of words.inc: <<[key, text], ...>>, at least one
  CanFail     \* whether the system call read may fail

VARIABLES
  pc,
  input, pos,     \* stdin, and how much of it is read
  BUF,            \* the buffer, and the byte behind it
  r14,            \* the length of the word so far
  entry,          \* the entry of the list that find_word looks at
  stdout, stderr, \* what is written
  status,         \* the exit status: the register rdi at exit
  failed          \* a call of read has failed

vars == <<pc, input, pos, BUF, r14, entry, stdout, stderr, status, failed>>

NONE   == ""
STDOUT == 1
STDERR == 2

err_msg1 == "line reading error"
err_msg2 == "no entry found error"

(* Each use of the macro colon puts an entry in front of those before it.  *)
wrong_colon(list, line) == Append(list, line)

colon(list, line) == <<line>> \o list

DICT == FoldLeft(colon, << >>, DEFINED)

(* The size that main gives read_word leaves room for the terminator.      *)
wrong_size == BUF_SIZE

size == BUF_SIZE - 1

Behind_BUF == 202  \* whatever it is

Init ==
  /\ pc = "read_word" /\ input \in INPUTS /\ pos = 0
  /\ BUF = [i \in 0..BUF_SIZE |-> IF i < BUF_SIZE THEN NUL ELSE Behind_BUF]
  /\ r14 = 0 /\ entry = 0
  /\ stdout = NONE /\ stderr = NONE /\ status = 0
  /\ failed = FALSE

(* read_char pushes a 0 that a failing read, or the end, leaves there.     *)
read_char(rax) ==
  \/ /\ rax = byte(input, pos + 1)
     /\ pos' = IF pos < Len(input) THEN pos + 1 ELSE pos
     /\ UNCHANGED failed
  \/ CanFail /\ rax = NUL /\ failed' = TRUE /\ UNCHANGED pos

Good ==
  /\ BUF' = [BUF EXCEPT ![r14] = NUL]
  /\ pc' = "find_word" /\ entry' = 1
  /\ UNCHANGED <<r14, stderr, status>>

Errors(message) ==
  /\ stderr' = message /\ status' = STDERR
  /\ pc' = "exit"

(* One byte of read_word.  White space is looked at first, then the size   *)
(* of the buffer, then the end.                                            *)
fits == r14 < size

leading == r14 = 0

ReadWord ==
  /\ pc = "read_word"
  /\ \E rax \in Separators \cup ToSet(input) :
       /\ read_char(rax)
       /\ CASE rax \in Spaces /\ leading -> UNCHANGED <<pc, BUF, r14, entry, stderr, status>>
            [] rax \in Spaces /\ ~leading -> Good
            [] rax \notin Spaces /\ ~fits -> Errors(err_msg1) /\ UNCHANGED <<BUF, r14, entry>>
            [] rax = NUL /\ fits -> Good
            [] OTHER -> /\ BUF' = [BUF EXCEPT ![r14] = rax] /\ r14' = r14 + 1
                        /\ UNCHANGED <<pc, entry, stderr, status>>
  /\ UNCHANGED <<input, stdout>>

string ==
  LET k == CHOOSE i \in DOMAIN BUF : BUF[i] = NUL /\ \A j \in 0..i - 1 : BUF[j] # NUL
  IN  [i \in 1..k |-> BUF[i - 1]]

next_entry == entry + 1

(* One entry of find_word; print_string leaves STDOUT in rdi.              *)
FindWord ==
  /\ pc = "find_word"
  /\ IF string_equals(string, DICT[entry].key) = 1
     THEN /\ stdout' = DICT[entry].text /\ status' = STDOUT
          /\ pc' = "exit" /\ UNCHANGED <<entry, stderr>>
     ELSE IF entry < Len(DICT)
     THEN entry' = next_entry /\ UNCHANGED <<pc, stdout, stderr, status>>
     ELSE Errors(err_msg2) /\ UNCHANGED <<entry, stdout>>
  /\ UNCHANGED <<input, pos, BUF, r14, failed>>

Next == ReadWord \/ FindWord

Spec == Init /\ [][Next]_vars /\ WF_vars(Next)

-----------------------------------------------------------------------------
(* Properties                                                              *)

(* No byte behind the buffer is written, although read_word may write as   *)
(* many bytes as it is told and one: main tells it one less.               *)
BufferKept == BUF[BUF_SIZE] = Behind_BUF

Lines(word) == {i \in DOMAIN DEFINED : DEFINED[i].key = word}

Defines(word) ==
  LET i == CHOOSE j \in Lines(word) : \A k \in Lines(word) : k <= j
  IN  DEFINED[i].text

Refuses == stdout = NONE /\ stderr # NONE

Answers(word) ==
  IF Lines(word) = {} THEN Refuses ELSE stdout = Defines(word) /\ stderr = NONE

(* The program prints the text that the last line with the first word of   *)
(* stdin defines, and nothing else; for a word without a line, or one too  *)
(* large for the buffer, it writes an error and nothing else.  A failing   *)
(* read ends the word: what is looked up is then a beginning of the first  *)
(* word.  (A word that fills the buffer but for the terminator is taken or *)
(* not, by what is behind it: see LongestWordTaken of Assembler.)          *)
FindsDefinition ==
  /\ pc = "find_word" => IsPrefix(string, FirstWord(input))
  /\ pc = "exit" /\ ~failed =>
       LET word == FirstWord(input)
       IN  /\ Len(word) < size => Answers(word)
           /\ Len(word) > size => Refuses

(* The program ends.                                                       *)
Ends == <>(pc = "exit")
=============================================================================
