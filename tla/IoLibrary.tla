------------------------------ MODULE IoLibrary ------------------------------
(***************************************************************************)
(* read_char and read_word of io-library/lib.asm, called again and again   *)
(* with the same buffer until one call fails.                              *)
(***************************************************************************)
EXTENDS Words

CONSTANTS
  INPUTS,     \* what stdin may hold
  SIZE,       \* the size of the buffer, rsi
  CanFail,    \* whether the system call read may fail
  EIO         \* the low byte of -errno

ASSUME SizeAssumption == SIZE \in Nat

ASSUME InputsAssumption == \A s \in INPUTS : s \in Seq(0..255)

VARIABLES
  pc,
  stdin,     \* the bytes not read yet
  buf,       \* the buffer from its first byte, and what follows it
  rbx,       \* the bytes of the word so far
  rax, rdx,  \* what the last call returned: rax is whether it is not NULL
  failed,    \* whether read has failed: "no", "once", or "always" from now on
  at_call    \* stdin when the last call began

vars == <<pc, stdin, buf, rbx, rax, rdx, failed, at_call>>

Untouched == 202  \* 0xca, with which the tests fill their buffer

Init ==
  /\ pc = "call" /\ stdin \in INPUTS
  /\ buf = [i \in 0..SIZE + 1 |-> Untouched]
  /\ rbx = 0 /\ rax = FALSE /\ rdx = 0 /\ failed = "no"
  /\ at_call = stdin

Call ==
  /\ pc = "call"
  /\ pc' = "all_spaces" /\ rbx' = 0 /\ at_call' = stdin
  /\ UNCHANGED <<stdin, buf, rax, rdx, failed>>

(* read_char: al is what rax holds when read fails or has reached the end. *)
read_char(al) ==
  \/ /\ failed # "always"
     /\ al = byte(stdin, 1) /\ stdin' = SubSeq(stdin, 2, Len(stdin)) /\ UNCHANGED failed
  \/ /\ CanFail
     /\ al = EIO /\ UNCHANGED stdin
     /\ failed' \in IF failed = "always" THEN {failed} ELSE {"once", "always"}

Bytes == UNION {ToSet(s) : s \in INPUTS} \cup {NUL, EIO}

Bad == pc' = "done" /\ rax' = FALSE /\ rdx' = 0 /\ UNCHANGED <<buf, rbx>>

wrong_Store(al) ==  \* the size of the buffer forgotten
  /\ buf' = [buf EXCEPT ![rbx] = al] /\ rbx' = rbx + 1
  /\ pc' = "word" /\ UNCHANGED <<rax, rdx>>

wrong_Fills(al) ==  \* what does not fit is dropped
  IF rbx = SIZE THEN UNCHANGED <<pc, buf, rbx, rax, rdx>>
  ELSE /\ buf' = [buf EXCEPT ![rbx] = al] /\ rbx' = rbx + 1
       /\ pc' = "word" /\ UNCHANGED <<rax, rdx>>

Store(al) ==
  IF rbx = SIZE THEN Bad
  ELSE /\ buf' = [buf EXCEPT ![rbx] = al] /\ rbx' = rbx + 1
       /\ pc' = "word" /\ UNCHANGED <<rax, rdx>>

wrong_Good ==  \* the terminator forgotten
  /\ rax' = TRUE /\ rdx' = rbx
  /\ pc' = "call" /\ UNCHANGED <<buf, rbx>>

Good ==
  /\ buf' = [buf EXCEPT ![rbx] = NUL]
  /\ rax' = TRUE /\ rdx' = rbx
  /\ pc' = "call" /\ UNCHANGED rbx

AllSpaces ==
  /\ pc = "all_spaces"
  /\ \E al \in Bytes :
       /\ read_char(al)
       /\ CASE al \in Spaces -> UNCHANGED <<pc, buf, rbx, rax, rdx>>
            [] al = NUL      -> Bad
            [] OTHER         -> Store(al)
  /\ UNCHANGED at_call

Word ==
  /\ pc = "word"
  /\ \E al \in Bytes :
       /\ read_char(al)
       /\ IF al \in Separators THEN Good ELSE Store(al)
  /\ UNCHANGED at_call

Next == Call \/ AllSpaces \/ Word

Spec == Init /\ [][Next]_vars /\ WF_vars(Next)

-----------------------------------------------------------------------------
(* Properties                                                              *)

string == LET k == CHOOSE i \in DOMAIN buf : buf[i] = NUL /\ \A j \in 0..i - 1 : buf[j] # NUL
          IN  [i \in 1..k |-> buf[i - 1]]

(* A call that succeeds has taken the first word of what stdin held and    *)
(* one separator behind it, so that the calls read the words of the text   *)
(* in order, and a word that fits with its terminator is in the buffer,    *)
(* whole and terminated; no word longer than the buffer succeeds.  A call  *)
(* that fails has met the end, or a word that does not fit, and reports no *)
(* length.  (Of a word exactly as long as the buffer see LongWordsFail of  *)
(* Assembler.)                                                             *)
WordsInOrder ==
  /\ pc = "done" => ~rax /\ rdx = 0
  /\ failed = "no" =>
    /\ pc = "call" /\ rax =>
         /\ rdx = Len(FirstWord(at_call)) /\ rdx <= SIZE
         /\ stdin = Behind(at_call)
         /\ rdx < SIZE => buf[rdx] = NUL /\ string = FirstWord(at_call)
    /\ pc = "done" =>
         \/ FirstWord(at_call) = << >>
         \/ Len(FirstWord(at_call)) >= SIZE

(* Every call returns: at the end of stdin, or, if read fails for ever,    *)
(* when the buffer is full of the error's byte.                            *)
CallReturns == pc = "all_spaces" ~> pc \in {"call", "done"}
=============================================================================
