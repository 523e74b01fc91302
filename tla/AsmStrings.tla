----------------------------- MODULE AsmStrings -----------------------------
(***************************************************************************)
(* The string and number functions of io-library/lib.asm (io_...) and of   *)
(* dictionary/lib.asm (dict_...), which answer the same exercise in two    *)
(* ways.  A string is the sequence of its bytes without the terminator; a  *)
(* register has W bits.                                                    *)
(***************************************************************************)
EXTENDS Integers, SequencesExt

CONSTANT W

ASSUME WidthAssumption == W \in Nat \ {0}

NUL    == 0
PLUS   == 43
MINUS  == 45
ZERO   == 48
Spaces == {32, 9, 10}

register ==
  LET power[k \in 0..W] == IF k = 0 THEN 1 ELSE 2 * power[k - 1] IN power[W]

(* The i-th byte of a string, the terminator behind the last.              *)
byte(s, i) == IF i <= Len(s) THEN s[i] ELSE NUL

Result(rax, rdx) == [rax |-> rax, rdx |-> rdx]

string_equals(s, t) ==
  IF \A i \in 1..Len(s) + 1 : byte(s, i) = byte(t, i) THEN 1 ELSE 0

-----------------------------------------------------------------------------
(* Numbers                                                                 *)

wrong_is_digit(c) == c >= ZERO /\ c <= ZERO + 10

is_digit(c) == c >= ZERO /\ c <= ZERO + 9

digits_of(s) ==
  SubSeq(s, 1, SelectInSeq(Append(s, NUL), LAMBDA c : ~is_digit(c)) - 1)

parse_uint(s) ==
  Result(FoldLeft(LAMBDA rax, c : (rax * 10 + c - ZERO) % register, 0, digits_of(s)),
         Len(digits_of(s)))

neg(rax) == (register - rax) % register

signed(s) == byte(s, 1) \in {PLUS, MINUS}

after_sign(s) ==
  LET r == parse_uint(Tail(s))
  IN  IF s[1] = MINUS THEN Result(neg(r.rax), r.rdx) ELSE r

io_parse_int(s) ==
  IF ~signed(s) THEN parse_uint(s)
  ELSE LET r == after_sign(s)
       IN  IF r.rdx = 0 THEN r ELSE Result(r.rax, r.rdx + 1)

dict_parse_int(s) ==  \* the sign always counts
  IF ~signed(s) THEN parse_uint(s)
  ELSE Result(after_sign(s).rax, after_sign(s).rdx + 1)

print_uint(rdi) ==
  LET text[n \in 0..rdi] == IF n < 10 THEN <<ZERO + n>>
                            ELSE Append(text[n \div 10], ZERO + (n % 10))
  IN  text[rdi]

negative(rdi) == 2 * rdi >= register

print_int(rdi) ==
  IF negative(rdi) THEN <<MINUS>> \o print_uint(neg(rdi)) ELSE print_uint(rdi)

-----------------------------------------------------------------------------
(* string_copy to a buffer of size bytes: rax, and the bytes written       *)

Copied(rax, written) == [rax |-> rax, written |-> written]

io_string_copy(s, size) ==  \* the terminator is copied, and not counted
  IF size < Len(s) THEN Copied(0, << >>) ELSE Copied(Len(s), Append(s, NUL))

wrong_dict_string_copy(s, size) ==  \* the bound is looked at after the byte
  IF Len(s) <= size THEN Copied(Len(s) + 1, Append(s, NUL))
  ELSE Copied(0, SubSeq(s, 1, size + 1))

dict_string_copy(s, size) ==
  IF Len(s) < size THEN Copied(Len(s) + 1, Append(s, NUL))
  ELSE Copied(0, SubSeq(s, 1, size))
=============================================================================
