--------------------------- MODULE AssemblerProofs ---------------------------
(***************************************************************************)
(* Proofs about the two assembler projects, for texts, buffers and lists   *)
(* of any length and registers of any width: both read_words read the      *)
(* words of the text, the dictionary answers what it defines, copies keep  *)
(* to their buffers, and numbers are read back as they are printed.        *)
(***************************************************************************)
EXTENDS AssemblerInvariant, CommonLemmas, SequenceTheorems

String == Seq(0..255)

-----------------------------------------------------------------------------
(* Words                                                                   *)

(* Min is the least element, when there is one.                            *)
LEMMA MinIs ==
  ASSUME NEW S \in SUBSET Nat, NEW k \in S, \A m \in S : k <= m
  PROVE  Min(S) = k
<1>1. Min(S) \in S /\ \A m \in S : Min(S) <= m
  BY DEF Min
<1> HIDE DEF Min
<1>2. Min(S) \in Nat /\ k \in Nat /\ k <= Min(S) /\ Min(S) <= k
  BY <1>1
<1> QED
  BY <1>2

(* What is left of a text behind its first n bytes.                        *)
LEMMA AfterIs ==
  ASSUME NEW s \in String, NEW n \in 0..Len(s)
  PROVE  /\ After(s, n) \in String /\ Len(After(s, n)) = Len(s) - n
         /\ \A i \in 1..Len(s) - n : After(s, n)[i] = s[n + i]
<1>1. s \in Seq(0..255) /\ Len(s) \in Nat /\ n + 1 \in 1..Len(s) + 1
  BY DEF String
<1>2. \A i \in n + 1 .. Len(s) : s[i] \in 0..255
  <2> SUFFICES ASSUME NEW i \in n + 1 .. Len(s) PROVE s[i] \in 0..255
    OBVIOUS
  <2>1. i \in 1..Len(s)
    BY <1>1
  <2> QED
    BY <1>1, <2>1, ElementOfSeq
<1> DEFINE a == SubSeq(s, n + 1, Len(s))
<1>3. /\ a \in Seq(0..255)
      /\ Len(a) = IF n + 1 <= Len(s) THEN Len(s) - (n + 1) + 1 ELSE 0
      /\ \A i \in 1 .. Len(s) - (n + 1) + 1 : a[i] = s[n + 1 + i - 1]
  BY <1>1, <1>2, SubSeqProperties
<1> HIDE DEF a
<1>4. Len(a) = Len(s) - n /\ \A i \in 1..Len(s) - n : a[i] = s[n + i]
  BY <1>1, <1>3
<1> QED
  BY <1>3, <1>4 DEF After, String, a

LEMMA AfterNone ==
  ASSUME NEW s \in String
  PROVE  After(s, 0) = s
<1>1. /\ After(s, 0) \in String /\ Len(After(s, 0)) = Len(s)
      /\ \A i \in 1..Len(s) : After(s, 0)[i] = s[i]
  BY AfterIs DEF String
<1> QED
  BY <1>1, SeqEqual DEF String

(* Behind n bytes and m more are n + m.                                    *)
LEMMA AfterAfter ==
  ASSUME NEW s \in String, NEW n \in 0..Len(s), NEW m \in 0..Len(s) - n
  PROVE  After(After(s, n), m) = After(s, n + m)
<1> DEFINE a == After(s, n)
<1>1. /\ a \in String /\ Len(a) = Len(s) - n
      /\ \A i \in 1..Len(s) - n : a[i] = s[n + i]
  BY AfterIs
<1>2. /\ After(a, m) \in String /\ Len(After(a, m)) = Len(s) - n - m
      /\ \A i \in 1..Len(s) - n - m : After(a, m)[i] = a[m + i]
  BY <1>1, AfterIs DEF String
<1>3. n + m \in 0..Len(s)
  BY DEF String
<1>4. /\ After(s, n + m) \in String /\ Len(After(s, n + m)) = Len(s) - (n + m)
      /\ \A i \in 1..Len(s) - (n + m) : After(s, n + m)[i] = s[n + m + i]
  BY <1>3, AfterIs
<1>5. \A i \in 1..Len(s) - n - m : m + i \in 1..Len(s) - n /\ n + (m + i) = n + m + i
  BY DEF String
<1>0. Len(s) \in Nat /\ n \in Nat /\ m \in Nat
  BY DEF String
<1> HIDE DEF a
<1>8. Len(s) - n - m = Len(s) - (n + m)
  BY <1>0
<1>6. Len(After(a, m)) = Len(After(s, n + m)) /\ Len(s) - n - m = Len(s) - (n + m)
  BY <1>8, <1>2, <1>4, Zenon
<1>7. \A i \in 1..Len(After(a, m)) : After(a, m)[i] = After(s, n + m)[i]
  BY <1>1, <1>2, <1>4, <1>5, <1>6
<1> QED
  BY <1>2, <1>4, <1>6, <1>7, SeqEqual DEF String, a

(* skip_spaces leaves what begins at the first byte that is no space.      *)
LEMMA SkipTo ==
  ASSUME NEW s \in String, NEW n \in 0..Len(s), \A i \in 1..n : s[i] \in Spaces,
         n = Len(s) \/ s[n + 1] \notin Spaces
  PROVE  skip_spaces(s) = After(s, n)
<1> DEFINE I == {i \in 1..Len(s) : s[i] \notin Spaces}
<1>1. first_not(s, Spaces) = IF I # {} THEN Min(I) ELSE 0
  BY DEF first_not, SelectInSeq
<1>2. Len(s) \in Nat
  BY DEF String
<1>3. CASE n = Len(s)
  <2>1. I = {}
    BY <1>3
  <2>2. After(s, n) = << >>
    BY <1>2, <1>3 DEF After
  <2> QED
    BY <1>1, <2>1, <2>2 DEF skip_spaces
<1>4. CASE n # Len(s)
  <2>1. n + 1 \in I /\ I \subseteq Nat /\ \A i \in I : n + 1 <= i
    BY <1>2, <1>4
  <2>2. Min(I) = n + 1
    BY <2>1, MinIs
  <2>3. first_not(s, Spaces) = n + 1 /\ n + 1 # 0
    BY <1>1, <1>2, <2>1, <2>2
  <2> QED
    BY <2>3 DEF skip_spaces, After
<1> QED
  BY <1>3, <1>4

(* There is such a first byte, or the text is white space.                 *)
LEMMA SkipSome ==
  ASSUME NEW s \in String
  PROVE  \E n \in 0..Len(s) : /\ \A i \in 1..n : s[i] \in Spaces
                              /\ n = Len(s) \/ s[n + 1] \notin Spaces
                              /\ skip_spaces(s) = After(s, n)
<1> DEFINE I == {n \in 0..Len(s) : n = Len(s) \/ s[n + 1] \notin Spaces}
<1>1. Len(s) \in I /\ I \subseteq Nat
  BY DEF String
<1>2. PICK n \in I : \A m \in I : n <= m
  BY <1>1, LeastElement
<1>3. \A i \in 1..n : s[i] \in Spaces
  <2> SUFFICES ASSUME NEW i \in 1..n, s[i] \notin Spaces PROVE FALSE
    OBVIOUS
  <2>1. i - 1 \in I /\ i - 1 < n
    BY <1>1, <1>2 DEF String
  <2> HIDE DEF I
  <2>2. n <= i - 1 /\ n \in Nat /\ i \in Nat
    <3>1. n \in Nat /\ n <= i - 1
      BY <1>1, <1>2, <2>1
    <3> QED
      BY <3>1
  <2> QED
    BY <2>1, <2>2
<1> QED
  BY <1>2, <1>3, SkipTo

LEMMA SkipIs ==
  ASSUME NEW s \in String
  PROVE  skip_spaces(s) \in String
BY SkipSome, AfterIs

(* A space in front is skipped, anything else begins what is left.         *)
LEMMA SkipFirst ==
  ASSUME NEW s \in String
  PROVE  /\ s # << >> /\ s[1] \in Spaces => skip_spaces(After(s, 1)) = skip_spaces(s)
         /\ s = << >> \/ s[1] \notin Spaces => skip_spaces(s) = s
<1>1. Len(s) \in Nat /\ (s # << >> => Len(s) > 0) /\ (s = << >> => Len(s) = 0)
  BY EmptySeq DEF String
<1>2. ASSUME s = << >> \/ s[1] \notin Spaces
      PROVE  skip_spaces(s) = s
  <2>1. skip_spaces(s) = After(s, 0)
    BY <1>1, <1>2, SkipTo
  <2> QED
    BY <2>1, AfterNone
<1>3. ASSUME s # << >>, s[1] \in Spaces
      PROVE  skip_spaces(After(s, 1)) = skip_spaces(s)
  <2> DEFINE r == After(s, 1)
  <2>1. PICK n \in 0..Len(s) : /\ \A i \in 1..n : s[i] \in Spaces
                               /\ n = Len(s) \/ s[n + 1] \notin Spaces
                               /\ skip_spaces(s) = After(s, n)
    BY SkipSome
  <2>2. n >= 1
    BY <1>1, <1>3, <2>1
  <2>3. /\ r \in String /\ Len(r) = Len(s) - 1
        /\ \A i \in 1..Len(s) - 1 : r[i] = s[1 + i]
    <3>1. 1 \in 0..Len(s)
      BY <1>1, <1>3
    <3> QED
      BY <3>1, AfterIs
  <2> HIDE DEF r
  <2>4. n - 1 \in 0..Len(r) /\ \A i \in 1..n - 1 : r[i] \in Spaces
    BY <1>1, <2>1, <2>2, <2>3
  <2>5. n - 1 = Len(r) \/ r[n - 1 + 1] \notin Spaces
    <3>1. CASE n = Len(s)
      BY <1>1, <3>1, <2>3
    <3>2. CASE n # Len(s)
      <4>1. n \in 1..Len(s) - 1 /\ n - 1 + 1 = n /\ r[n] = s[1 + n] /\ 1 + n = n + 1
        BY <1>1, <2>1, <2>2, <2>3, <3>2
      <4> QED
        BY <2>1, <3>2, <4>1
    <3> QED
      BY <3>1, <3>2
  <2>6. skip_spaces(r) = After(r, n - 1)
    BY <2>3, <2>4, <2>5, SkipTo
  <2>7. After(r, n - 1) = After(s, 1 + (n - 1))
    BY <1>1, <2>1, <2>2, AfterAfter DEF r
  <2> QED
    BY <2>1, <2>6, <2>7 DEF r
<1> QED
  BY <1>2, <1>3

(* The first word ends in front of the first separator, or at the end.     *)
LEMMA FirstWordIs ==
  ASSUME NEW s \in String, NEW n \in 0..Len(skip_spaces(s)),
         \A i \in 1..n : skip_spaces(s)[i] \notin Separators,
         n = Len(skip_spaces(s)) \/ skip_spaces(s)[n + 1] \in Separators
  PROVE  /\ FirstWord(s) = SubSeq(skip_spaces(s), 1, n)
         /\ Len(FirstWord(s)) = n
<1> DEFINE t == skip_spaces(s)
           u == Append(t, NUL)
           I == {i \in 1..Len(u) : u[i] \in Separators}
<1>1. t \in String /\ NUL \in Separators /\ NUL \in 0..255
  BY SkipIs DEF Separators, NUL
<1>2. /\ u \in String /\ Len(u) = Len(t) + 1 /\ Len(t) \in Nat
      /\ u[Len(t) + 1] = NUL /\ \A i \in 1..Len(t) : u[i] = t[i]
  BY <1>1 DEF String
<1>3. FirstWord(s) = SubSeq(u, 1, (IF I # {} THEN Min(I) ELSE 0) - 1)
  BY DEF FirstWord, SelectInSeq
<1>4. n \in 0..Len(t) /\ (\A i \in 1..n : t[i] \notin Separators)
      /\ (n = Len(t) \/ t[n + 1] \in Separators)
  OBVIOUS
<1> HIDE DEF t, u
<1>5. n + 1 \in I /\ I \subseteq Nat /\ \A i \in I : n + 1 <= i
  <2>1. n + 1 \in 1..Len(u) /\ u[n + 1] \in Separators
    BY <1>1, <1>2, <1>4
  <2>2. \A i \in 1..n : u[i] \notin Separators
    BY <1>2, <1>4
  <2> QED
    BY <1>2, <1>4, <2>1, <2>2
<1>6. Min(I) = n + 1 /\ n \in Nat
  BY <1>2, <1>4, <1>5, MinIs
<1> HIDE DEF I
<1>7. FirstWord(s) = SubSeq(u, 1, n)
  BY <1>3, <1>4, <1>5, <1>6
<1>8. SubSeq(u, 1, n) = SubSeq(t, 1, n) /\ Len(SubSeq(t, 1, n)) = n
  BY <1>1, <1>2, <1>4 DEF String
<1> QED
  BY <1>7, <1>8 DEF t

(* A word is as long as one has seen of it, at least.                      *)
LEMMA FirstWordAtLeast ==
  ASSUME NEW s \in String, NEW n \in 0..Len(skip_spaces(s)),
         \A i \in 1..n : skip_spaces(s)[i] \notin Separators
  PROVE  /\ Len(FirstWord(s)) \in Nat /\ n <= Len(FirstWord(s))
         /\ FirstWord(s) = SubSeq(skip_spaces(s), 1, Len(FirstWord(s)))
         /\ Len(FirstWord(s)) <= Len(skip_spaces(s))
<1> DEFINE t == skip_spaces(s)
           I == {k \in n..Len(t) : k = Len(t) \/ t[k + 1] \in Separators}
<1>1. t \in String /\ Len(t) \in Nat
  BY SkipIs DEF String
<1>2. Len(t) \in I /\ I \subseteq Nat
  BY <1>1
<1>3. PICK k \in I : \A m \in I : k <= m
  BY <1>2, LeastElement
<1>4. \A i \in 1..k : t[i] \notin Separators
  <2> SUFFICES ASSUME NEW i \in 1..k, t[i] \in Separators PROVE FALSE
    OBVIOUS
  <2>1. ~(i <= n)
    OBVIOUS
  <2>2. i - 1 \in I /\ i - 1 < k
    BY <1>1, <1>3, <2>1
  <2> HIDE DEF I
  <2>3. k <= i - 1 /\ k \in Nat /\ i \in Nat
    <3>1. k \in Nat /\ k <= i - 1
      BY <1>2, <1>3, <2>2
    <3> QED
      BY <3>1
  <2> QED
    BY <2>2, <2>3
<1>5. FirstWord(s) = SubSeq(t, 1, k) /\ Len(FirstWord(s)) = k
  BY <1>1, <1>3, <1>4, FirstWordIs
<1> QED
  BY <1>1, <1>3, <1>5

(* One byte more of a word.                                                *)
LEMMA OneMore ==
  ASSUME NEW t \in String, NEW n \in Nat, NEW b, NEW c, InWord(t, n, b),
         n < Len(t), 0..n \subseteq DOMAIN b, t[n + 1] \notin Separators
  PROVE  InWord(t, n + 1, [b EXCEPT ![n] = t[n + 1]])
<1> DEFINE e == [b EXCEPT ![n] = t[n + 1]]
<1>1. n + 1 <= Len(t)
  BY DEF String
<1>2. ASSUME NEW i \in 1..n + 1
      PROVE  t[i] \notin Separators /\ e[i - 1] = t[i]
  <2>1. CASE i = n + 1
    BY <2>1
  <2>2. CASE i # n + 1
    <3>1. i \in 1..n /\ i - 1 \in 0..n /\ i - 1 # n
      BY <2>2
    <3>2. e[i - 1] = b[i - 1]
      BY <3>1
    <3> QED
      BY <3>1, <3>2 DEF InWord
  <2> QED
    BY <2>1, <2>2
<1> QED
  BY <1>1, <1>2 DEF InWord

(* The string that a buffer holds, up to its first NUL.                    *)
Held(b) ==
  LET k == CHOOSE i \in DOMAIN b : b[i] = NUL /\ \A j \in 0..i - 1 : b[j] # NUL
  IN  [i \in 1..k |-> b[i - 1]]

(* What ends with the first NUL of a buffer is the word that is in it.     *)
LEMMA WordHeld ==
  ASSUME NEW t \in String, NEW b, NEW m \in Nat, DOMAIN b = 0..m, NEW n \in 0..m,
         InWord(t, n, b), b[n] = NUL
  PROVE  Held(b) = SubSeq(t, 1, n)
<1> DEFINE First(i) == b[i] = NUL /\ \A j \in 0..i - 1 : b[j] # NUL
           k == CHOOSE i \in DOMAIN b : First(i)
<1>1. \A j \in 0..n - 1 : b[j] # NUL
  <2> SUFFICES ASSUME NEW j \in 0..n - 1 PROVE b[j] # NUL
    OBVIOUS
  <2>1. j + 1 \in 1..n /\ j + 1 - 1 = j
    OBVIOUS
  <2>2. t[j + 1] \notin Separators /\ b[j + 1 - 1] = t[j + 1]
    BY <2>1 DEF InWord
  <2> QED
    BY <2>1, <2>2 DEF Separators
<1>2. First(n) /\ n \in DOMAIN b
  BY <1>1
<1>3. k \in DOMAIN b /\ First(k)
  BY <1>2, Zenon
<1>4. k = n
  <2>1. k \in Nat /\ n \in Nat
    BY <1>3
  <2> HIDE DEF k
  <2>2. ~(k < n)
    BY <1>1, <1>3, <2>1
  <2>3. ~(n < k)
    BY <1>2, <1>3, <2>1
  <2> QED
    BY <2>1, <2>2, <2>3
<1>5. [i \in 1..n |-> b[i - 1]] = SubSeq(t, 1, n)
  <2>1. \A i \in 1..n : b[i - 1] = t[i]
    BY DEF InWord
  <2>2. n <= Len(t)
    BY DEF InWord
  <2> QED
    BY <2>1, <2>2 DEF String
<1> QED
  BY <1>4, <1>5 DEF Held

-----------------------------------------------------------------------------
(* io-library: each call reads the next word                               *)

LEMMA IoStart ==
  ASSUME Init
  PROVE  IoInv
<1>1. stdin \in String /\ at_call = stdin /\ SIZE \in Nat
  BY InputsAssumption, SizeAssumption DEF Init, String
<1>2. IoTypes
  BY <1>1 DEF Init, IoTypes, String
<1>3. OneByteTooFar
  BY <1>1 DEF Init, OneByteTooFar
<1> QED
  BY <1>2, <1>3 DEF Init, IoInv, IoReading, WordsRead

(* read_char takes a byte of stdin, unless it fails.                       *)
LEMMA ReadCharIs ==
  ASSUME IoTypes, NEW al, read_char(al)
  PROVE  /\ stdin' \in String
         /\ failed' = "no" => /\ failed = "no" /\ al = byte(stdin, 1)
                             /\ stdin' = After(stdin, 1)
<1>1. stdin \in String /\ Len(stdin) \in Nat
  BY DEF IoTypes, String
<1>2. After(stdin, 1) = SubSeq(stdin, 2, Len(stdin))
  BY DEF After
<1>3. SubSeq(stdin, 2, Len(stdin)) \in String
  <2>1. CASE stdin = << >>
    <3>1. SubSeq(stdin, 2, Len(stdin)) = << >>
      BY <2>1
    <3> QED
      BY <3>1, EmptySeq DEF String
  <2>2. CASE stdin # << >>
    <3>1. 1 \in 0..Len(stdin)
      BY <1>1, <2>2, EmptySeq DEF String
    <3> QED
      BY <1>1, <1>2, <3>1, AfterIs
  <2> QED
    BY <2>1, <2>2
<1> QED
  BY <1>1, <1>2, <1>3 DEF read_char

(* The types, and the byte behind the buffer.                              *)
LEMMA IoTyped ==
  ASSUME IoTypes, OneByteTooFar, Call \/ AllSpaces \/ Word
  PROVE  IoTypes' /\ OneByteTooFar'
<1>1. SIZE \in Nat /\ 0 \in 0..SIZE
  BY SizeAssumption
<1>2. CASE Call
  BY <1>1, <1>2 DEF Call, IoTypes, OneByteTooFar
<1>3. ASSUME NEW al, Store(al), stdin' \in String, UNCHANGED at_call
      PROVE  IoTypes' /\ OneByteTooFar'
  <2>1. CASE rbx = SIZE
    BY <1>1, <1>3, <2>1 DEF Store, Bad, IoTypes, OneByteTooFar, String
  <2>2. CASE rbx # SIZE
    <3>1. rbx \in 0..SIZE - 1 /\ rbx + 1 \in 0..SIZE /\ rbx # SIZE /\ rbx # SIZE + 1
      BY <1>1, <2>2 DEF IoTypes
    <3>2. /\ buf' = [buf EXCEPT ![rbx] = al] /\ rbx' = rbx + 1
          /\ pc' = "word" /\ UNCHANGED <<rax, rdx>>
      BY <1>3, <2>2 DEF Store
    <3>3. DOMAIN buf' = 0..SIZE + 1 /\ buf'[SIZE] = buf[SIZE] /\ buf'[SIZE + 1] = buf[SIZE + 1]
      BY <1>1, <3>1, <3>2 DEF IoTypes
    <3> QED
      BY <1>3, <3>1, <3>2, <3>3 DEF IoTypes, OneByteTooFar, String
  <2> QED
    BY <2>1, <2>2
<1>4. CASE AllSpaces
  <2>1. PICK al \in Bytes : /\ read_char(al)
                           /\ CASE al \in Spaces -> UNCHANGED <<pc, buf, rbx, rax, rdx>>
                                [] al = NUL      -> Bad
                                [] OTHER         -> Store(al)
    BY <1>4 DEF AllSpaces
  <2>2. stdin' \in String /\ UNCHANGED at_call
    BY <1>4, <2>1, ReadCharIs DEF AllSpaces
  <2>3. UNCHANGED <<pc, buf, rbx, rax, rdx>> \/ Bad \/ Store(al)
    BY <2>1 DEF Spaces, NUL
  <2>4. CASE UNCHANGED <<pc, buf, rbx, rax, rdx>>
    BY <2>2, <2>4 DEF IoTypes, OneByteTooFar, String
  <2>5. CASE Bad
    BY <1>1, <2>2, <2>5 DEF Bad, IoTypes, OneByteTooFar, String
  <2> QED
    BY <1>3, <2>2, <2>3, <2>4, <2>5
<1>5. CASE Word
  <2>1. PICK al \in Bytes : read_char(al) /\ (Good \/ Store(al))
    BY <1>5 DEF Word
  <2>2. stdin' \in String /\ UNCHANGED at_call
    BY <1>5, <2>1, ReadCharIs DEF Word
  <2>3. CASE Good
    <3>1. /\ buf' = [buf EXCEPT ![rbx] = NUL] /\ rbx' = rbx /\ rdx' = rbx
          /\ pc' = "call"
      BY <2>3 DEF Good
    <3>2. rbx \in 0..SIZE /\ rbx # SIZE + 1 /\ SIZE # SIZE + 1
      BY <1>1 DEF IoTypes
    <3>3. /\ DOMAIN buf' = 0..SIZE + 1 /\ buf'[SIZE] \in {buf[SIZE], NUL}
          /\ buf'[SIZE + 1] = buf[SIZE + 1]
      BY <1>1, <3>1, <3>2 DEF IoTypes
    <3> QED
      BY <2>2, <3>1, <3>2, <3>3 DEF IoTypes, OneByteTooFar, String
  <2> QED
    BY <1>3, <2>1, <2>2, <2>3
<1> QED
  BY <1>2, <1>4, <1>5

(* The next byte of stdin, while no call of read fails.                    *)
LEMMA AllSpacesRight ==
  ASSUME IoInv, AllSpaces
  PROVE  IoReading' /\ WordsRead'
<1> DEFINE t == skip_spaces(at_call)
<1>1. PICK al \in Bytes : /\ read_char(al)
                         /\ CASE al \in Spaces -> UNCHANGED <<pc, buf, rbx, rax, rdx>>
                              [] al = NUL      -> Bad
                              [] OTHER         -> Store(al)
  BY DEF AllSpaces
<1>2. pc = "all_spaces" /\ UNCHANGED at_call /\ at_call \in String /\ stdin \in String
  BY DEF AllSpaces, IoInv, IoTypes, String
<1>3. NUL \notin Spaces /\ Separators = Spaces \cup {NUL}
  BY DEF Spaces, NUL, Separators
<1>4. pc' = "done" => ~rax' /\ rdx' = 0
  <2>1. UNCHANGED pc \/ Bad \/ Store(al)
    BY <1>1, <1>3
  <2> QED
    BY <1>2, <2>1 DEF Bad, Store
<1>5. pc' # "call"
  BY <1>1, <1>2, <1>3 DEF Bad, Store
<1>6. SUFFICES ASSUME failed' = "no"
               PROVE  /\ pc' = "all_spaces" => rbx' = 0 /\ skip_spaces(stdin') = t
                      /\ pc' = "word" => InWord(t, rbx', buf') /\ stdin' = After(t, rbx')
                      /\ pc' = "done" => FirstWord(at_call) = << >> \/ Len(FirstWord(at_call)) > SIZE
  BY <1>2, <1>4, <1>5 DEF IoReading, WordsRead
<1>7. /\ failed = "no" /\ al = byte(stdin, 1) /\ stdin' = After(stdin, 1)
      /\ rbx = 0 /\ skip_spaces(stdin) = t /\ t \in String
  BY <1>1, <1>2, <1>6, ReadCharIs, SkipIs DEF IoInv, IoReading
<1>8. /\ Len(stdin) \in Nat
      /\ al = IF stdin = << >> THEN NUL ELSE stdin[1]
      /\ stdin # << >> => Len(stdin) >= 1
  BY <1>2, <1>7, EmptySeq DEF byte, String
<1> HIDE DEF t
<1>9. CASE al \in Spaces
  <2>1. UNCHANGED <<pc, buf, rbx, rax, rdx>>
    BY <1>1, <1>3, <1>9
  <2>2. stdin # << >> /\ stdin[1] \in Spaces
    BY <1>3, <1>8, <1>9
  <2>3. skip_spaces(After(stdin, 1)) = skip_spaces(stdin)
    BY <1>2, <2>2, SkipFirst
  <2> QED
    BY <1>2, <1>7, <2>1, <2>3
<1>10. CASE al \notin Spaces
  <2>1. t = stdin
    BY <1>2, <1>7, <1>8, <1>10, SkipFirst
  <2>2. CASE al = NUL
    <3>1. pc' = "done"
      BY <1>1, <1>3, <2>2 DEF Bad
    <3>2. 0 = Len(t) \/ t[0 + 1] \in Separators
      BY <1>3, <1>8, <2>1, <2>2
    <3>3. 0 \in 0..Len(t) /\ \A i \in 1..0 : t[i] \notin Separators
      BY <1>8, <2>1
    <3>4. FirstWord(at_call) = SubSeq(t, 1, 0)
      BY <1>2, <3>2, <3>3, FirstWordIs DEF t
    <3>5. FirstWord(at_call) = << >>
      BY <3>4
    <3> QED
      BY <3>1, <3>5
  <2>3. CASE al # NUL
    <3>1. Store(al) /\ stdin # << >> /\ al \notin Separators
      BY <1>1, <1>3, <1>8, <1>10, <2>3
    <3>2. 1 <= Len(t) /\ 1 \in 0..Len(t) /\ t[1] = al /\ Len(t) \in Nat
      BY <1>8, <2>1, <3>1
    <3>3. CASE rbx = SIZE
      <4>1. pc' = "done"
        BY <3>1, <3>3 DEF Store, Bad
      <4>2. \A i \in 1..1 : t[i] \notin Separators
        BY <3>1, <3>2
      <4>3. Len(FirstWord(at_call)) \in Nat /\ 1 <= Len(FirstWord(at_call))
        BY <1>2, <3>2, <4>2, FirstWordAtLeast DEF t
      <4> QED
        BY <1>7, <3>3, <4>1, <4>3
    <3>4. CASE rbx # SIZE
      <4>1. pc' = "word" /\ rbx' = 1 /\ buf' = [buf EXCEPT ![0] = t[0 + 1]]
        BY <1>7, <3>1, <3>2, <3>4 DEF Store
      <4>2. InWord(t, 0, buf) /\ 0..0 \subseteq DOMAIN buf
        BY <3>2, SizeAssumption DEF InWord, IoInv, IoTypes
      <4>3. 0 < Len(t) /\ t[0 + 1] \notin Separators
        BY <3>1, <3>2
      <4>4. InWord(t, 0 + 1, [buf EXCEPT ![0] = t[0 + 1]])
        BY <1>7, <4>2, <4>3, OneMore
      <4>5. InWord(t, rbx', buf')
        BY <4>1, <4>4
      <4> QED
        BY <1>7, <2>1, <4>1, <4>5
    <3> QED
      BY <3>3, <3>4
  <2> QED
    BY <2>2, <2>3
<1> QED
  BY <1>9, <1>10

LEMMA WordRight ==
  ASSUME IoInv, Word
  PROVE  IoReading' /\ WordsRead'
<1> DEFINE t == skip_spaces(at_call)
<1>1. PICK al \in Bytes : read_char(al) /\ IF al \in Separators THEN Good ELSE Store(al)
  BY DEF Word
<1>2. pc = "word" /\ UNCHANGED at_call /\ at_call \in String /\ stdin \in String
  BY DEF Word, IoInv, IoTypes, String
<1>3. pc' = "done" => ~rax' /\ rdx' = 0
  BY <1>1, <1>2 DEF Good, Bad, Store
<1>4. pc' # "all_spaces"
  BY <1>1, <1>2 DEF Good, Bad, Store
<1>5. SUFFICES ASSUME failed' = "no"
               PROVE  /\ pc' = "word" => InWord(t, rbx', buf') /\ stdin' = After(t, rbx')
                      /\ pc' = "call" /\ rax' =>
                           /\ rdx' = Len(FirstWord(at_call)) /\ buf'[rdx'] = NUL
                           /\ string' = FirstWord(at_call)
                           /\ stdin' = Behind(at_call)
                      /\ pc' = "done" => FirstWord(at_call) = << >> \/ Len(FirstWord(at_call)) > SIZE
  BY <1>2, <1>3, <1>4 DEF IoReading, WordsRead
<1>6. /\ al = byte(stdin, 1) /\ stdin' = After(stdin, 1)
      /\ InWord(t, rbx, buf) /\ stdin = After(t, rbx) /\ t \in String
  BY <1>1, <1>2, <1>5, ReadCharIs, SkipIs DEF IoInv, IoReading
<1>7. /\ SIZE \in Nat /\ rbx \in 0..SIZE /\ DOMAIN buf = 0..SIZE + 1
      /\ Len(t) \in Nat /\ rbx <= Len(t) /\ rbx \in 0..Len(t) /\ rbx \in Nat
      /\ \A i \in 1..rbx : t[i] \notin Separators
  BY <1>6, SizeAssumption DEF IoInv, IoTypes, InWord, String
<1> HIDE DEF t
<1>8. Len(stdin) = Len(t) - rbx /\ \A i \in 1..Len(t) - rbx : stdin[i] = t[rbx + i]
  BY <1>6, <1>7, AfterIs
<1>9. al = IF rbx < Len(t) THEN t[rbx + 1] ELSE NUL
  <2>1. CASE rbx < Len(t)
    <3>1. 1 \in 1..Len(t) - rbx /\ 1 <= Len(stdin)
      BY <1>7, <1>8, <2>1
    <3> QED
      BY <1>6, <1>8, <2>1, <3>1 DEF byte
  <2>2. CASE ~(rbx < Len(t))
    <3>1. ~(1 <= Len(stdin))
      BY <1>7, <1>8, <2>2
    <3> QED
      BY <1>6, <2>2, <3>1 DEF byte
  <2> QED
    BY <2>1, <2>2
<1>10. CASE al \in Separators
  <2>1. /\ buf' = [buf EXCEPT ![rbx] = NUL]
        /\ rax' = TRUE /\ rdx' = rbx /\ pc' = "call" /\ rbx' = rbx
    BY <1>1, <1>10 DEF Good
  <2>2. FirstWord(at_call) = SubSeq(t, 1, rbx) /\ Len(FirstWord(at_call)) = rbx
    <3>1. rbx = Len(t) \/ t[rbx + 1] \in Separators
      BY <1>7, <1>9, <1>10
    <3> QED
      BY <1>2, <1>7, <3>1, FirstWordIs DEF t
  <2>3. buf'[rbx] = NUL /\ DOMAIN buf' = 0..SIZE + 1 /\ rbx \in 0..SIZE + 1 /\ SIZE + 1 \in Nat
    BY <1>7, <2>1
  <2>4. InWord(t, rbx, buf')
    BY <1>6, <1>7, <2>1 DEF InWord
  <2>5. PICK b : b = buf'
    OBVIOUS
  <2>6. string' = Held(b)
    BY <2>5 DEF string, Held
  <2>7. string' = SubSeq(t, 1, rbx)
    <3>1. /\ DOMAIN b = 0..SIZE + 1 /\ rbx \in 0..SIZE + 1 /\ SIZE + 1 \in Nat
          /\ InWord(t, rbx, b) /\ b[rbx] = NUL /\ t \in String
      BY <1>6, <2>3, <2>4, <2>5
    <3> QED
      BY <2>6, <3>1, WordHeld
  <2>8. stdin' = Behind(at_call)
    <3>1. Behind(at_call) = SubSeq(t, rbx + 2, Len(t))
      BY <2>2 DEF Behind, t
    <3>2. CASE rbx < Len(t)
      <4>1. 1 \in 0..Len(t) - rbx /\ rbx + 1 + 1 = rbx + 2
        BY <1>7, <3>2
      <4>2. After(After(t, rbx), 1) = After(t, rbx + 1)
        BY <1>6, <1>7, <4>1, AfterAfter
      <4> QED
        BY <1>6, <3>1, <4>1, <4>2 DEF After
    <3>3. CASE ~(rbx < Len(t))
      <4>1. rbx = Len(t) /\ Len(stdin) = 0
        BY <1>7, <1>8, <3>3
      <4>2. SubSeq(stdin, 1 + 1, Len(stdin)) = << >>
        BY <4>1, SubSeqEmpty
      <4>3. SubSeq(t, rbx + 2, Len(t)) = << >>
        BY <1>7, <4>1, SubSeqEmpty
      <4> QED
        BY <1>6, <3>1, <4>2, <4>3 DEF After
    <3> QED
      BY <3>2, <3>3
  <2> QED
    BY <2>1, <2>2, <2>3, <2>7, <2>8
<1>11. CASE al \notin Separators
  <2>1. Store(al) /\ rbx < Len(t) /\ al = t[rbx + 1]
    BY <1>1, <1>9, <1>11 DEF Separators
  <2>2. CASE rbx = SIZE
    <3>1. pc' = "done"
      BY <2>1, <2>2 DEF Store, Bad
    <3>2. rbx + 1 \in 0..Len(t) /\ \A i \in 1..rbx + 1 : t[i] \notin Separators
      <4>1. ASSUME NEW i \in 1..rbx + 1 PROVE i \in 1..rbx \/ i = rbx + 1
        BY <1>7
      <4> QED
        BY <1>7, <1>11, <2>1, <4>1
    <3>3. Len(FirstWord(at_call)) \in Nat /\ rbx + 1 <= Len(FirstWord(at_call))
      BY <1>2, <3>2, FirstWordAtLeast DEF t
    <3> QED
      BY <1>7, <2>2, <3>1, <3>3
  <2>3. CASE rbx # SIZE
    <3>1. pc' = "word" /\ rbx' = rbx + 1 /\ buf' = [buf EXCEPT ![rbx] = t[rbx + 1]]
      BY <2>1, <2>3 DEF Store
    <3>2. 0..rbx \subseteq DOMAIN buf
      BY <1>7
    <3>3. InWord(t, rbx', buf')
      BY <1>6, <1>7, <1>11, <2>1, <3>1, <3>2, OneMore
    <3>4. 1 \in 0..Len(t) - rbx
      BY <1>7, <2>1
    <3>5. stdin' = After(t, rbx')
      BY <1>6, <1>7, <3>1, <3>4, AfterAfter
    <3> QED
      BY <3>1, <3>3, <3>5
  <2> QED
    BY <2>2, <2>3
<1> QED
  BY <1>10, <1>11

LEMMA IoStep ==
  ASSUME IoInv, Call \/ AllSpaces \/ Word
  PROVE  IoInv'
<1>1. IoTypes' /\ OneByteTooFar'
  BY IoTyped DEF IoInv
<1>2. CASE Call
  BY <1>1, <1>2 DEF Call, IoInv, IoReading, WordsRead
<1> QED
  BY <1>1, <1>2, AllSpacesRight, WordRight DEF IoInv

-----------------------------------------------------------------------------
(* Folds                                                                   *)

LEMMA MaxIs ==
  ASSUME NEW S \in SUBSET Nat, NEW k \in S, \A m \in S : m <= k
  PROVE  Max(S) = k
<1>1. Max(S) \in S /\ \A m \in S : Max(S) >= m
  BY DEF Max
<1> HIDE DEF Max
<1>2. Max(S) \in Nat /\ k \in Nat /\ k <= Max(S) /\ Max(S) <= k
  BY <1>1
<1> QED
  BY <1>2

LEMMA MaxIn ==
  ASSUME NEW n \in Nat, NEW S \in SUBSET (1..n), S # {}
  PROVE  Max(S) \in S
<1> DEFINE B == {b \in 0..n : \A m \in S : m <= b}
<1>1. n \in B /\ B \subseteq Nat
  OBVIOUS
<1>2. PICK b \in B : \A c \in B : b <= c
  BY <1>1, LeastElement
<1>3. b \in 0..n /\ \A m \in S : m <= b
  BY <1>2
<1>4. b \in S
  <2> SUFFICES ASSUME b \notin S PROVE FALSE
    OBVIOUS
  <2>1. \A m \in S : m <= b - 1 /\ m >= 1
    BY <1>3
  <2>2. b - 1 \in 0..n
    <3>1. PICK m \in S : m <= b - 1 /\ m >= 1
      BY <2>1
    <3> QED
      BY <1>3, <3>1
  <2>3. b - 1 \in B
    BY <2>1, <2>2
  <2>4. b <= b - 1
    BY <1>2, <2>3
  <2> QED
    BY <1>3, <2>4
<1> QED
  BY <1>3, <1>4, MaxIs

(* g takes the elements of a set of naturals from the last to the first:   *)
(* the function that a fold is defined by.                                 *)
Folds(g, n, T, base, F) ==
  /\ g \in [SUBSET (1..n) -> T]
  /\ \A S \in SUBSET (1..n) :
        g[S] = IF S = {} THEN base ELSE F[<<Max(S), g[S \ {Max(S)}]>>]

(* There is one.                                                           *)
LEMMA FoldExists ==
  ASSUME NEW T, NEW base \in T, NEW F \in [Nat \X T -> T], NEW n \in Nat
  PROVE  \E g : Folds(g, n, T, base, F)
<1> DEFINE N == {k \in Nat : \E g : Folds(g, k, T, base, F)}
<1>1. 0 \in N
  <2> DEFINE g == [S \in SUBSET (1..0) |-> base]
  <2>1. g \in [SUBSET (1..0) -> T]
    OBVIOUS
  <2>2. \A S \in SUBSET (1..0) : S = {}
    OBVIOUS
  <2>3. Folds(g, 0, T, base, F)
    BY <2>1, <2>2 DEF Folds
  <2> QED
    BY <2>3
<1>2. ASSUME NEW k \in Nat, k \in N
      PROVE  k + 1 \in N
  <2>1. PICK g : Folds(g, k, T, base, F)
    BY <1>2
  <2>0. g \in [SUBSET (1..k) -> T]
    BY <2>1 DEF Folds
  <2> DEFINE h == [S \in SUBSET (1..k + 1) |->
                     IF k + 1 \in S THEN F[<<k + 1, g[S \ {k + 1}]>>] ELSE g[S]]
  <2>2. \A S \in SUBSET (1..k + 1) : S \ {k + 1} \in SUBSET (1..k)
    OBVIOUS
  <2>3. \A S \in SUBSET (1..k) : S \in SUBSET (1..k + 1) /\ k + 1 \notin S
    OBVIOUS
  <2>4. h \in [SUBSET (1..k + 1) -> T]
    <3> SUFFICES ASSUME NEW S \in SUBSET (1..k + 1)
                 PROVE  (IF k + 1 \in S THEN F[<<k + 1, g[S \ {k + 1}]>>] ELSE g[S]) \in T
      OBVIOUS
    <3>1. CASE k + 1 \in S
      <4>1. <<k + 1, g[S \ {k + 1}]>> \in Nat \X T
        BY <2>0, <2>2
      <4> QED
        BY <3>1, <4>1
    <3>2. CASE k + 1 \notin S
      <4>1. S \in SUBSET (1..k)
        BY <2>2, <3>2
      <4> QED
        BY <2>0, <3>2, <4>1
    <3> QED
      BY <3>1, <3>2
  <2>5. \A S \in SUBSET (1..k) : h[S] = g[S]
    BY <2>3
  <2>6. ASSUME NEW S \in SUBSET (1..k + 1)
        PROVE  h[S] = IF S = {} THEN base ELSE F[<<Max(S), h[S \ {Max(S)}]>>]
    <3>1. CASE k + 1 \in S
      <4>1. Max(S) = k + 1
        <5>1. S \in SUBSET Nat /\ \A m \in S : m <= k + 1
          OBVIOUS
        <5> QED
          BY <3>1, <5>1, MaxIs
      <4>2. h[S \ {k + 1}] = g[S \ {k + 1}]
        BY <2>2, <2>5
      <4>3. h[S] = F[<<k + 1, g[S \ {k + 1}]>>] /\ S # {}
        BY <3>1
      <4> HIDE DEF h
      <4> QED
        BY <4>1, <4>2, <4>3
    <3>2. CASE k + 1 \notin S
      <4>1. S \in SUBSET (1..k)
        BY <2>2, <3>2
      <4>2. h[S] = g[S]
        BY <2>5, <4>1
      <4>3. S \ {Max(S)} \in SUBSET (1..k)
        BY <4>1
      <4>4. h[S \ {Max(S)}] = g[S \ {Max(S)}]
        BY <2>5, <4>3
      <4>5. g[S] = IF S = {} THEN base ELSE F[<<Max(S), g[S \ {Max(S)}]>>]
        BY <2>1, <4>1 DEF Folds
      <4> HIDE DEF h
      <4> QED
        BY <4>2, <4>4, <4>5
    <3> QED
      BY <3>1, <3>2
  <2> HIDE DEF h
  <2>7. Folds(h, k + 1, T, base, F)
    BY <2>4, <2>6 DEF Folds
  <2> QED
    BY <2>7
<1> HIDE DEF N
<1>3. n \in N
  BY <1>1, <1>2, EveryNatural
<1> QED
  BY <1>3 DEF N

(* A first part of an interval, as the fold takes it apart.                *)
LEMMA LastOf ==
  ASSUME NEW k \in Nat
  PROVE  1..k + 1 # {} /\ Max(1..k + 1) = k + 1 /\ (1..k + 1) \ {k + 1} = 1..k
<1>1. 1..k + 1 \in SUBSET Nat /\ k + 1 \in 1..k + 1 /\ \A m \in 1..k + 1 : m <= k + 1
  OBVIOUS
<1>2. (1..k + 1) \ {k + 1} = 1..k
  OBVIOUS
<1> QED
  BY <1>1, <1>2, MaxIs

(* The list that the macro colon builds has the lines, the last one first. *)
LEMMA DictIs ==
  /\ Len(DEFINED) \in Nat \ {0} /\ DOMAIN DEFINED = 1..Len(DEFINED)
  /\ D!DICT = [i \in 1..Len(DEFINED) |-> DEFINED[Len(DEFINED) + 1 - i]]
  /\ Len(D!DICT) = Len(DEFINED)
<1> DEFINE L == [key : Seq(1..255), text : STRING]
           n == Len(DEFINED)
           T == Seq(L)
           F == [p \in Nat \X T |-> IF p[1] \in 1..n THEN <<DEFINED[p[1]]>> \o p[2] ELSE p[2]]
           Is(f) == f = [S \in SUBSET (1..n) |->
                           IF S = {} THEN << >> ELSE <<DEFINED[Max(S)]>> \o f[S \ {Max(S)}]]
           iter == CHOOSE f : Is(f)
<1>1. /\ n \in Nat \ {0} /\ DOMAIN DEFINED = 1..n
      /\ \A i \in 1..n : DEFINED[i] \in L
  <2>1. DEFINED \in Seq(L) /\ DEFINED # << >>
    BY DefinedAssumption
  <2> HIDE DEF L
  <2>2. Len(DEFINED) \in Nat /\ Len(DEFINED) # 0
    BY <2>1, EmptySeq
  <2> QED
    BY <2>1, <2>2, ElementOfSeq
<1>2. D!DICT = iter[1..n]
  BY <1>1 DEF D!DICT, D!FoldLeft, D!MapThenFoldSet, D!Max, Max, D!colon
<1> HIDE DEF L, n
<1>3. << >> \in T
  BY EmptySeq
<1>4. F \in [Nat \X T -> T]
  <2> SUFFICES ASSUME NEW p \in Nat \X T
               PROVE  (IF p[1] \in 1..n THEN <<DEFINED[p[1]]>> \o p[2] ELSE p[2]) \in T
    OBVIOUS
  <2>1. p[2] \in Seq(L)
    OBVIOUS
  <2>2. p[1] \in 1..n => <<DEFINED[p[1]]>> \in Seq(L)
    BY <1>1
  <2> QED
    BY <2>1, <2>2
<1>5. PICK g : Folds(g, n, T, << >>, F)
  <2> HIDE DEF F, T
  <2>1. n \in Nat
    BY <1>1
  <2> QED
    BY <2>1, <1>3, <1>4, FoldExists
<1>6. Is(g)
  <2>1. ASSUME NEW S \in SUBSET (1..n), S # {}
        PROVE  g[S] = <<DEFINED[Max(S)]>> \o g[S \ {Max(S)}]
    <3>1. Max(S) \in 1..n
      BY <1>1, <2>1, MaxIn
    <3>2. g[S \ {Max(S)}] \in T
      BY <1>5 DEF Folds
    <3>3. F[<<Max(S), g[S \ {Max(S)}]>>] = <<DEFINED[Max(S)]>> \o g[S \ {Max(S)}]
      <4> DEFINE p == <<Max(S), g[S \ {Max(S)}]>>
      <4>1. p \in Nat \X T /\ p[1] = Max(S) /\ p[2] = g[S \ {Max(S)}]
        <5>1. PICK m, q : m = Max(S) /\ q = g[S \ {Max(S)}]
          OBVIOUS
        <5>2. m \in Nat /\ q \in T
          BY <3>1, <3>2, <5>1
        <5> HIDE DEF T
        <5>3. <<m, q>> \in Nat \X T /\ <<m, q>>[1] = m /\ <<m, q>>[2] = q
          BY <5>2
        <5> QED
          BY <5>1, <5>3
      <4> HIDE DEF p, T
      <4>2. F[p] = <<DEFINED[p[1]]>> \o p[2]
        BY <3>1, <4>1
      <4> HIDE DEF F
      <4>3. F[p] = <<DEFINED[Max(S)]>> \o g[S \ {Max(S)}]
        BY <4>1, <4>2
      <4> QED
        BY <4>3 DEF p
    <3> QED
      BY <1>5, <2>1, <3>3 DEF Folds
  <2>2. \A S \in SUBSET (1..n) :
          g[S] = IF S = {} THEN << >> ELSE <<DEFINED[Max(S)]>> \o g[S \ {Max(S)}]
    BY <1>5, <2>1 DEF Folds
  <2>3. g = [S \in SUBSET (1..n) |-> g[S]]
    BY <1>5 DEF Folds
  <2> QED
    BY <2>2, <2>3
<1>7. Is(iter)
  <2> HIDE DEF Is
  <2> QED
    BY <1>6, Zenon
<1>8. PICK it : it = iter
  OBVIOUS
<1> HIDE DEF iter
<1>9. \A S \in SUBSET (1..n) :
        it[S] = IF S = {} THEN << >> ELSE <<DEFINED[Max(S)]>> \o it[S \ {Max(S)}]
  BY <1>7, <1>8
<1> HIDE DEF T, F, Is
<1> DEFINE Turned(k) == it[1..k] = [i \in 1..k |-> DEFINED[k + 1 - i]]
           N == {k \in Nat : k <= n => Turned(k)}
<1>10. 0 \in N
  <2>1. 1..0 = {} /\ 1..0 \in SUBSET (1..n)
    OBVIOUS
  <2>2. it[1..0] = << >>
    BY <1>9, <2>1
  <2>3. [i \in 1..0 |-> DEFINED[0 + 1 - i]] = << >>
    BY <2>1
  <2> QED
    BY <2>2, <2>3
<1>11. ASSUME NEW k \in Nat, k \in N
       PROVE  k + 1 \in N
  <2> HIDE DEF Turned
  <2> SUFFICES ASSUME k + 1 <= n PROVE Turned(k + 1)
    OBVIOUS
  <2> USE DEF Turned
  <2>1. 1..k + 1 \in SUBSET (1..n) /\ k <= n
    BY <1>1
  <2>2. it[1..k + 1] = <<DEFINED[k + 1]>> \o it[1..k]
    <3>1. 1..k + 1 # {} /\ Max(1..k + 1) = k + 1 /\ (1..k + 1) \ {k + 1} = 1..k
      BY LastOf
    <3>2. it[1..k + 1] = <<DEFINED[Max(1..k + 1)]>> \o it[(1..k + 1) \ {Max(1..k + 1)}]
      BY <1>9, <2>1, <3>1
    <3> QED
      BY <3>1, <3>2
  <2> DEFINE r == [i \in 1..k |-> DEFINED[k + 1 - i]]
  <2>3. it[1..k] = r
    BY <1>11, <2>1
  <2>4. r \in Seq(L) /\ Len(r) = k
    <3>1. \A i \in 1..k : DEFINED[k + 1 - i] \in L
      BY <1>1, <2>1
    <3> QED
      BY <3>1
  <2>5. <<DEFINED[k + 1]>> \in Seq(L) /\ Len(<<DEFINED[k + 1]>>) = 1
    BY <1>1, <2>1
  <2>6. /\ it[1..k + 1] \in Seq(L) /\ Len(it[1..k + 1]) = k + 1
        /\ \A i \in 1..k + 1 : it[1..k + 1][i] = IF i <= 1 THEN DEFINED[k + 1] ELSE r[i - 1]
    <3> HIDE DEF r
    <3> QED
      BY <2>2, <2>3, <2>4, <2>5
  <2>7. ASSUME NEW i \in 1..k + 1
        PROVE  it[1..k + 1][i] = DEFINED[k + 1 + 1 - i]
    <3>1. CASE i = 1
      <4>1. k + 1 + 1 - i = k + 1 /\ i <= 1
        BY <3>1
      <4>2. it[1..k + 1][i] = DEFINED[k + 1]
        BY <2>6, <4>1
      <4> QED
        BY <4>1, <4>2
    <3>2. CASE i # 1
      <4>1. i - 1 \in 1..k /\ k + 1 - (i - 1) = k + 1 + 1 - i /\ ~(i <= 1)
        BY <3>2
      <4>2. r[i - 1] = DEFINED[k + 1 - (i - 1)]
        BY <4>1
      <4> QED
        BY <2>6, <4>1, <4>2
    <3> QED
      BY <3>1, <3>2
  <2>8. DOMAIN it[1..k + 1] = 1..k + 1 /\ it[1..k + 1] = [i \in DOMAIN it[1..k + 1] |-> it[1..k + 1][i]]
    BY <2>6
  <2> QED
    BY <2>7, <2>8
<1> HIDE DEF N
<1>12. n \in N
  BY <1>1, <1>10, <1>11, EveryNatural
<1>13. D!DICT = [i \in 1..n |-> DEFINED[n + 1 - i]]
  <2>1. n \in Nat /\ n <= n
    BY <1>1
  <2> HIDE DEF Turned
  <2>2. Turned(n)
    BY <1>12, <2>1 DEF N
  <2> USE DEF Turned
  <2> QED
    BY <1>2, <1>8, <2>2
<1>14. D!DICT \in Seq(L) /\ Len(D!DICT) = n
  <2>1. \A i \in 1..n : DEFINED[n + 1 - i] \in L
    BY <1>1
  <2> QED
    BY <1>1, <1>13, <2>1
<1> QED
  BY <1>1, <1>13, <1>14 DEF n

-----------------------------------------------------------------------------
(* dictionary: read_word reads the first word, find_word its last line     *)

(* Dictionary means the same by the words of a text.                       *)
LEMMA SameWords ==
  /\ D!NUL = NUL /\ D!Spaces = Spaces /\ D!Separators = Separators
  /\ \A s : D!FirstWord(s) = FirstWord(s)
  /\ \A s, i : D!byte(s, i) = byte(s, i)
<1>1. D!NUL = NUL /\ D!Spaces = Spaces /\ D!Separators = Separators
  BY DEF D!Separators, Separators, D!Spaces, Spaces, D!NUL, NUL
<1>2. ASSUME NEW s PROVE D!FirstWord(s) = FirstWord(s)
  BY DEF D!FirstWord, FirstWord, D!skip_spaces, skip_spaces, D!Separators, Separators,
         D!Spaces, Spaces, D!NUL, NUL, D!first_not, first_not, D!SelectInSeq, SelectInSeq,
         D!Min, Min
<1>3. ASSUME NEW s, NEW i PROVE D!byte(s, i) = byte(s, i)
  BY DEF D!NUL, NUL, D!byte, byte
<1> QED
  BY <1>1, <1>2, <1>3

LEMMA DictSize ==
  /\ BUF_SIZE \in Nat /\ D!size \in Nat /\ D!size = BUF_SIZE - 1 /\ BUF_SIZE \notin 0..D!size
  /\ 0..D!size \subseteq 0..BUF_SIZE
BY BufferAssumption DEF D!size

LEMMA DictStart ==
  ASSUME D!Init
  PROVE  DictInv
<1>1. input \in String /\ Len(input) \in Nat /\ After(input, 0) = input
  BY InputsAssumption, AfterNone DEF D!Init, String
<1>2. DictTypes
  BY <1>1, DictSize DEF D!Init, DictTypes, String
<1>3. DictReading
  BY <1>1 DEF D!Init, DictReading
<1>4. D!BufferKept
  BY DictSize DEF D!Init, D!BufferKept
<1> QED
  BY <1>2, <1>3, <1>4 DEF D!Init, DictInv, Finding, Replies

(* What find_word looks up is the word in the buffer.                      *)
LEMMA DictString ==
  ASSUME NEW t \in String, NEW n \in 0..D!size, NEW b, DOMAIN b = 0..BUF_SIZE,
         InWord(t, n, b), b[n] = NUL
  PROVE  Held(b) = SubSeq(t, 1, n)
<1>1. BUF_SIZE \in Nat /\ n \in 0..BUF_SIZE
  BY DictSize
<1> QED
  BY <1>1, WordHeld

(* It is a beginning of the first word of the text.                        *)
LEMMA DictPrefix ==
  ASSUME NEW s \in String, NEW n \in 0..Len(skip_spaces(s)),
         \A i \in 1..n : skip_spaces(s)[i] \notin Separators
  PROVE  D!IsPrefix(SubSeq(skip_spaces(s), 1, n), D!FirstWord(s))
<1> DEFINE t == skip_spaces(s)
           w == FirstWord(s)
<1>1. t \in String /\ Len(t) \in Nat /\ n \in Nat /\ n \in 0..Len(t)
  BY SkipIs DEF String
<1>2. /\ Len(w) \in Nat /\ n <= Len(w) /\ Len(w) <= Len(t)
      /\ w = SubSeq(t, 1, Len(w))
  BY FirstWordAtLeast
<1> HIDE DEF t, w
<1>3. /\ Len(SubSeq(t, 1, n)) = n
      /\ SubSeq(SubSeq(t, 1, n), 1, n) = SubSeq(t, 1, n)
      /\ SubSeq(SubSeq(t, 1, Len(w)), 1, n) = SubSeq(t, 1, n)
  BY <1>1, <1>2 DEF String
<1>4. SubSeq(w, 1, n) = SubSeq(t, 1, n)
  BY <1>2, <1>3
<1> QED
  BY <1>2, <1>3, <1>4, SameWords DEF D!IsPrefix, t, w

(* One byte of read_word, in the four ways it goes on.                     *)
LEMMA ReadWordCases ==
  ASSUME DictInv, D!ReadWord, NEW t, t = skip_spaces(input), NEW rest, rest = After(input, pos)
  PROVE  /\ dpc = "read_word" /\ ~dfailed /\ input' = input /\ stdout' = stdout
         /\ stdout = D!NONE /\ stderr = D!NONE /\ pos' \in 0..Len(input)
         /\ r14 > 0 => rest = After(t, r14)
         /\ InWord(t, r14, BUF) /\ r14 \in 0..Len(t)
         /\ \E al :
              /\ ~dfailed' => al = IF rest = << >> THEN NUL ELSE rest[1]
              /\ al # NUL => ~dfailed' /\ rest # << >> /\ After(input, pos') = After(rest, 1)
              /\ al \notin Spaces /\ ~dfailed' => rest = After(t, r14)
              /\ \/ /\ al \in Spaces /\ r14 = 0
                    /\ UNCHANGED <<dpc, BUF, r14, entry, stderr, status>>
                 \/ al \in Separators /\ D!Good /\ (r14 = 0 => al \notin Spaces)
                 \/ /\ al \notin Spaces /\ r14 = D!size
                    /\ D!Errors(D!err_msg1) /\ UNCHANGED <<BUF, r14, entry>>
                 \/ /\ al \notin Separators /\ r14 < D!size
                    /\ BUF' = [BUF EXCEPT ![r14] = al] /\ r14' = r14 + 1
                    /\ UNCHANGED <<dpc, entry, stderr, status>>
<1>1. /\ input \in String /\ Len(input) \in Nat /\ pos \in 0..Len(input) /\ r14 \in 0..D!size
      /\ D!size \in Nat /\ r14 \in Nat
  BY DictSize DEF DictInv, DictTypes, String
<1>2. /\ rest \in String /\ Len(rest) = Len(input) - pos
      /\ \A i \in 1..Len(input) - pos : rest[i] = input[pos + i]
  BY <1>1, AfterIs
<1>3. t \in String /\ Len(t) \in Nat
  BY <1>1, SkipIs DEF String
<1>4. /\ dpc = "read_word" /\ ~dfailed /\ input' = input /\ stdout' = stdout
      /\ stdout = D!NONE /\ stderr = D!NONE
      /\ r14 = 0 => skip_spaces(rest) = t
      /\ r14 > 0 => InWord(t, r14, BUF) /\ rest = After(t, r14)
  BY DEF D!ReadWord, DictInv, DictReading
<1>5. InWord(t, r14, BUF) /\ r14 \in 0..Len(t)
  BY <1>1, <1>3, <1>4 DEF InWord
<1>6. PICK al \in D!Separators \cup D!ToSet(input) :
        /\ D!read_char(al)
        /\ CASE al \in D!Spaces /\ D!leading -> UNCHANGED <<dpc, BUF, r14, entry, stderr, status>>
             [] al \in D!Spaces /\ ~D!leading -> D!Good
             [] al \notin D!Spaces /\ ~D!fits ->
                  D!Errors(D!err_msg1) /\ UNCHANGED <<BUF, r14, entry>>
             [] al = D!NUL /\ D!fits -> D!Good
             [] OTHER -> /\ BUF' = [BUF EXCEPT ![r14] = al] /\ r14' = r14 + 1
                         /\ UNCHANGED <<dpc, entry, stderr, status>>
  BY DEF D!ReadWord
<1>7. \/ /\ al = byte(input, pos + 1) /\ dfailed' = dfailed
         /\ pos' = IF pos < Len(input) THEN pos + 1 ELSE pos
      \/ al = NUL /\ dfailed' = TRUE /\ pos' = pos
  BY <1>6, SameWords DEF D!read_char
<1>8. byte(input, pos + 1) = IF rest = << >> THEN NUL ELSE rest[1]
  <2>1. CASE pos < Len(input)
    <3>1. /\ 1 \in 1..Len(input) - pos /\ pos + 1 <= Len(input) /\ Len(rest) # 0
      BY <1>1, <1>2, <2>1
    <3>2. rest # << >>
      BY <3>1
    <3> QED
      BY <1>2, <3>1, <3>2 DEF byte
  <2>2. CASE ~(pos < Len(input))
    <3>1. ~(pos + 1 <= Len(input)) /\ Len(rest) = 0
      BY <1>1, <1>2, <2>2
    <3>2. rest = << >>
      BY <1>2, <3>1, EmptySeq DEF String
    <3> QED
      BY <3>1, <3>2 DEF byte
  <2> QED
    BY <2>1, <2>2
<1>9. ~dfailed' => al = IF rest = << >> THEN NUL ELSE rest[1]
  BY <1>4, <1>7, <1>8
<1>10. al # NUL => ~dfailed' /\ rest # << >> /\ After(input, pos') = After(rest, 1)
  <2> SUFFICES ASSUME al # NUL PROVE ~dfailed' /\ rest # << >> /\ After(input, pos') = After(rest, 1)
    OBVIOUS
  <2>1. /\ ~dfailed' /\ rest # << >> /\ al = byte(input, pos + 1)
        /\ pos' = IF pos < Len(input) THEN pos + 1 ELSE pos
    BY <1>4, <1>7, <1>8
  <2>2. pos < Len(input)
    BY <1>1, <2>1 DEF byte
  <2>3. pos' = pos + 1 /\ 1 \in 0..Len(input) - pos
    BY <1>1, <2>1, <2>2
  <2> QED
    BY <1>1, <2>1, <2>3, AfterAfter
<1>11. al \notin Spaces /\ ~dfailed' => rest = After(t, r14)
  <2> SUFFICES ASSUME al \notin Spaces, ~dfailed', r14 = 0 PROVE rest = After(t, r14)
    BY <1>1, <1>4
  <2>1. rest = << >> \/ rest[1] \notin Spaces
    BY <1>9
  <2>2. t = rest
    BY <1>2, <1>4, <2>1, SkipFirst
  <2> QED
    BY <1>3, <2>2, AfterNone
<1>12. pos' \in 0..Len(input)
  BY <1>1, <1>7
<1>13. /\ D!leading <=> r14 = 0
       /\ D!fits <=> r14 < D!size
       /\ ~(r14 < D!size) <=> r14 = D!size
       /\ D!Spaces = Spaces /\ D!NUL = NUL /\ NUL \notin Spaces /\ Separators = Spaces \cup {NUL}
  BY <1>1, SameWords DEF D!leading, D!fits, NUL, Spaces, Separators
<1>14. \/ /\ al \in Spaces /\ r14 = 0
          /\ UNCHANGED <<dpc, BUF, r14, entry, stderr, status>>
       \/ al \in Separators /\ D!Good /\ (r14 = 0 => al \notin Spaces)
       \/ /\ al \notin Spaces /\ r14 = D!size
          /\ D!Errors(D!err_msg1) /\ UNCHANGED <<BUF, r14, entry>>
       \/ /\ al \notin Separators /\ r14 < D!size
          /\ BUF' = [BUF EXCEPT ![r14] = al] /\ r14' = r14 + 1
          /\ UNCHANGED <<dpc, entry, stderr, status>>
  <2>1. CASE al \in Spaces /\ r14 = 0
    BY <1>6, <1>13, <2>1
  <2>2. CASE al \in Spaces /\ r14 # 0
    BY <1>6, <1>13, <2>2
  <2>3. CASE al \notin Spaces /\ r14 = D!size
    BY <1>6, <1>13, <2>3
  <2>4. CASE al = NUL /\ r14 < D!size
    BY <1>6, <1>13, <2>4
  <2>5. CASE al \notin Separators /\ r14 < D!size
    BY <1>6, <1>13, <2>5
  <2> QED
    BY <1>13, <2>1, <2>2, <2>3, <2>4, <2>5
<1> QED
  BY <1>4, <1>5, <1>9, <1>10, <1>11, <1>12, <1>14

LEMMA ReadWordStep ==
  ASSUME DictInv, D!ReadWord
  PROVE  DictInv'
<1>1. PICK t, rest, n : t = skip_spaces(input) /\ rest = After(input, pos) /\ n = r14
  OBVIOUS
<1>2. /\ dpc = "read_word" /\ ~dfailed /\ input' = input /\ stdout' = stdout
      /\ stdout = D!NONE /\ stderr = D!NONE /\ pos' \in 0..Len(input)
      /\ n > 0 => rest = After(t, n)
      /\ InWord(t, n, BUF) /\ n \in 0..Len(t)
  BY <1>1, ReadWordCases
<1>3. PICK al :
         /\ ~dfailed' => al = IF rest = << >> THEN NUL ELSE rest[1]
         /\ al # NUL => ~dfailed' /\ rest # << >> /\ After(input, pos') = After(rest, 1)
         /\ al \notin Spaces /\ ~dfailed' => rest = After(t, n)
         /\ \/ /\ al \in Spaces /\ n = 0
               /\ UNCHANGED <<dpc, BUF, r14, entry, stderr, status>>
            \/ al \in Separators /\ D!Good /\ (n = 0 => al \notin Spaces)
            \/ /\ al \notin Spaces /\ n = D!size
               /\ D!Errors(D!err_msg1) /\ UNCHANGED <<BUF, r14, entry>>
            \/ /\ al \notin Separators /\ n < D!size
               /\ BUF' = [BUF EXCEPT ![n] = al] /\ r14' = n + 1
               /\ UNCHANGED <<dpc, entry, stderr, status>>
  BY <1>1, ReadWordCases
<1>4. /\ input \in String /\ t \in String /\ rest \in String /\ Len(t) \in Nat /\ Len(rest) \in Nat
      /\ n \in 0..D!size /\ n \in Nat /\ DOMAIN BUF = 0..BUF_SIZE /\ BUF[BUF_SIZE] = D!Behind_BUF
  BY <1>1, SkipIs, AfterIs, DictSize DEF DictInv, DictTypes, D!BufferKept, String
<1>5. rest = After(t, n) =>
        /\ rest = << >> => n = Len(t)
        /\ rest # << >> => n < Len(t) /\ rest[1] = t[n + 1] /\ After(rest, 1) = After(t, n + 1)
  <2> SUFFICES ASSUME rest = After(t, n)
               PROVE  /\ rest = << >> => n = Len(t)
                      /\ rest # << >> =>
                           n < Len(t) /\ rest[1] = t[n + 1] /\ After(rest, 1) = After(t, n + 1)
    OBVIOUS
  <2>1. /\ Len(rest) = Len(t) - n /\ \A i \in 1..Len(t) - n : rest[i] = t[n + i]
    BY <1>2, <1>4, AfterIs
  <2>2. CASE rest = << >>
    <3>1. Len(rest) = 0
      BY <2>2
    <3> QED
      BY <1>4, <2>1, <2>2, <3>1
  <2>3. CASE rest # << >>
    <3>1. Len(rest) # 0
      BY <1>4, <2>3, EmptySeq DEF String
    <3>2. n < Len(t) /\ 1 \in 1..Len(t) - n /\ 1 \in 0..Len(t) - n
      BY <1>4, <2>1, <3>1
    <3>3. After(After(t, n), 1) = After(t, n + 1)
      BY <1>2, <1>4, <3>2, AfterAfter
    <3> QED
      BY <2>1, <2>3, <3>2, <3>3
  <2> QED
    BY <2>2, <2>3
<1>6. NUL \notin Spaces /\ Separators = Spaces \cup {NUL}
  BY DEF NUL, Spaces, Separators
<1>7. CASE /\ al \in Spaces /\ n = 0
           /\ UNCHANGED <<dpc, BUF, r14, entry, stderr, status>>
  <2>1. ~dfailed' /\ rest # << >> /\ rest[1] \in Spaces /\ After(input, pos') = After(rest, 1)
    BY <1>3, <1>6, <1>7
  <2>2. skip_spaces(rest) = t
    BY <1>1, <1>2, <1>7 DEF DictInv, DictReading
  <2>3. skip_spaces(After(input, pos')) = t
    BY <1>4, <2>1, <2>2, SkipFirst
  <2>4. DictTypes'
    BY <1>2, <1>7 DEF DictInv, DictTypes
  <2>5. DictReading'
    <3>1. /\ ~dfailed' /\ stdout' = D!NONE /\ stderr' = D!NONE /\ r14' = 0
          /\ skip_spaces(After(input', pos')) = skip_spaces(input')
      BY <1>1, <1>2, <1>7, <2>1, <2>3
    <3> QED
      BY <3>1 DEF DictReading
  <2> QED
    BY <1>2, <1>7, <2>4, <2>5 DEF DictInv, Finding, D!BufferKept, Replies
<1>8. CASE al \in Separators /\ D!Good /\ (n = 0 => al \notin Spaces)
  <2>1. /\ BUF' = [BUF EXCEPT ![n] = NUL] /\ r14' = n /\ dpc' = "find_word"
        /\ entry' = 1 /\ stderr' = stderr
    BY <1>1, <1>8, SameWords DEF D!Good
  <2>2. n \in 0..BUF_SIZE /\ n # BUF_SIZE
    BY <1>4, DictSize
  <2>3. DictTypes'
    BY <1>1, <1>2, <2>1 DEF DictInv, DictTypes
  <2>4. BUF'[BUF_SIZE] = D!Behind_BUF /\ BUF'[n] = NUL
    BY <1>4, <2>1, <2>2
  <2>5. \A i \in 1..n : BUF'[i - 1] = BUF[i - 1]
    <3>1. ASSUME NEW i \in 1..n PROVE i - 1 \in 0..BUF_SIZE /\ i - 1 # n
      BY <1>4, <2>2, BufferAssumption
    <3> QED
      BY <1>4, <2>1, <3>1
  <2>6. InWord(t, n, BUF')
    BY <1>2, <2>5 DEF InWord
  <2>7. ~dfailed' => FirstWord(input) = SubSeq(t, 1, n)
    <3> SUFFICES ASSUME ~dfailed' PROVE FirstWord(input) = SubSeq(t, 1, n)
      OBVIOUS
    <3>1. rest = After(t, n)
      BY <1>2, <1>3, <1>4, <1>8
    <3>2. n = Len(t) \/ t[n + 1] \in Separators
      BY <1>3, <1>5, <1>6, <1>8, <3>1
    <3>3. \A i \in 1..n : t[i] \notin Separators
      BY <1>2 DEF InWord
    <3> QED
      BY <1>1, <1>2, <1>4, <3>2, <3>3, FirstWordIs
  <2>8. Finding'
    <3>1. 1 \in 1..Len(D!DICT) /\ Len(D!DICT)' = Len(D!DICT)
      BY DictIs DEF D!DICT
    <3> QED
      BY <1>1, <1>2, <2>1, <2>4, <2>6, <2>7, <3>1 DEF Finding
  <2>9. D!IsPrefix(D!string, D!FirstWord(input))'
    <3>1. PICK b : b = BUF'
      OBVIOUS
    <3>2. DOMAIN b = 0..BUF_SIZE /\ InWord(t, n, b) /\ b[n] = NUL
      BY <1>4, <2>1, <2>4, <2>6, <3>1
    <3>3. D!string' = SubSeq(t, 1, n)
      <4>1. D!string' = Held(b)
        BY <3>1, SameWords DEF D!string, Held
      <4>2. Held(b) = SubSeq(t, 1, n)
        BY <1>4, <3>2, DictString
      <4> QED
        BY <4>1, <4>2
    <3>4. \A i \in 1..n : t[i] \notin Separators
      BY <1>2 DEF InWord
    <3>5. D!IsPrefix(SubSeq(t, 1, n), D!FirstWord(input))
      BY <1>1, <1>2, <1>4, <3>4, DictPrefix
    <3> QED
      BY <1>2, <3>3, <3>5 DEF D!IsPrefix
  <2> QED
    BY <2>1, <2>3, <2>4, <2>8, <2>9
    DEF DictInv, DictReading, D!BufferKept, Replies
<1>9. CASE /\ al \notin Spaces /\ n = D!size
           /\ D!Errors(D!err_msg1) /\ UNCHANGED <<BUF, r14, entry>>
  <2>1. dpc' = "exit" /\ stderr' = D!err_msg1 /\ BUF' = BUF /\ r14' = r14
    BY <1>9 DEF D!Errors
  <2>2. Len(FirstWord(input)) \in Nat /\ n <= Len(FirstWord(input))
    <3>1. \A i \in 1..n : t[i] \notin Separators
      BY <1>2 DEF InWord
    <3> QED
      BY <1>1, <1>2, <1>4, <3>1, FirstWordAtLeast
  <2>3. DictTypes'
    BY <1>2, <2>1 DEF DictInv, DictTypes
  <2>4. Replies'
    BY <1>2, <1>4, <1>9, <2>1, <2>2, DictSize, SameWords DEF Replies
  <2> QED
    BY <2>1, <2>3, <2>4 DEF DictInv, DictReading, Finding, D!BufferKept
<1>10. CASE /\ al \notin Separators /\ n < D!size
            /\ BUF' = [BUF EXCEPT ![n] = al] /\ r14' = n + 1
            /\ UNCHANGED <<dpc, entry, stderr, status>>
  <2>1. /\ ~dfailed' /\ rest # << >> /\ al = rest[1] /\ After(input, pos') = After(rest, 1)
        /\ rest = After(t, n)
    BY <1>3, <1>6, <1>10
  <2>2. n < Len(t) /\ al = t[n + 1] /\ After(input, pos') = After(t, n + 1)
    BY <1>5, <2>1
  <2>3. n + 1 \in 0..D!size /\ n \in 0..BUF_SIZE /\ n # BUF_SIZE /\ 0..n \subseteq DOMAIN BUF
    BY <1>4, <1>10, DictSize
  <2>4. InWord(t, n + 1, BUF')
    BY <1>2, <1>4, <1>10, <2>2, <2>3, OneMore
  <2>5. DictTypes'
    BY <1>2, <1>4, <1>10, <2>3, DictSize DEF DictInv, DictTypes
  <2>6. DictReading'
    BY <1>1, <1>2, <1>4, <1>10, <2>1, <2>2, <2>4 DEF DictReading
  <2>7. BUF'[BUF_SIZE] = D!Behind_BUF
    BY <1>4, <1>10, <2>3
  <2> QED
    BY <1>2, <1>10, <2>5, <2>6, <2>7 DEF DictInv, Finding, D!BufferKept, Replies
<1> QED
  BY <1>3, <1>7, <1>8, <1>9, <1>10

(* Strings without a NUL are equal when all their bytes are.               *)
LEMMA StringsEqual ==
  ASSUME NEW w \in String, \A i \in 1..Len(w) : w[i] # NUL, NEW key \in Seq(1..255)
  PROVE  D!string_equals(w, key) = 1 <=> w = key
<1>1. /\ Len(w) \in Nat /\ Len(key) \in Nat
      /\ \A i \in 1..Len(key) : key[i] # NUL
  <2>1. ASSUME NEW i \in 1..Len(key) PROVE key[i] # NUL
    <3>1. key[i] \in 1..255
      BY ElementOfSeq
    <3>2. \A c \in 1..255 : c # NUL
      BY DEF NUL
    <3> QED
      BY <3>1, <3>2, Zenon
  <2> QED
    BY <2>1 DEF String
<1>2. D!string_equals(w, key) = 1 <=> \A i \in 1..Len(w) + 1 : byte(w, i) = byte(key, i)
  BY SameWords DEF D!string_equals
<1>3. ASSUME \A i \in 1..Len(w) + 1 : byte(w, i) = byte(key, i)
      PROVE  w = key
  <2>1. ~(Len(w) + 1 <= Len(key))
    <3> SUFFICES ASSUME Len(w) + 1 <= Len(key) PROVE FALSE
      OBVIOUS
    <3>1. Len(w) + 1 \in 1..Len(key) /\ Len(w) + 1 \in 1..Len(w) + 1 /\ ~(Len(w) + 1 <= Len(w))
      BY <1>1
    <3>2. byte(w, Len(w) + 1) = NUL /\ byte(key, Len(w) + 1) = key[Len(w) + 1]
      BY <3>1 DEF byte
    <3> QED
      BY <1>1, <1>3, <3>1, <3>2
  <2>2. ASSUME NEW i \in 1..Len(w)
        PROVE  i <= Len(key) /\ w[i] = key[i]
    <3>1. i \in 1..Len(w) + 1 /\ i <= Len(w)
      BY <1>1
    <3>2. byte(w, i) = w[i] /\ w[i] # NUL
      BY <3>1 DEF byte
    <3> QED
      BY <1>3, <3>1, <3>2 DEF byte
  <2>3. Len(w) <= Len(key)
    <3>1. CASE Len(w) = 0
      BY <1>1, <3>1
    <3>2. CASE Len(w) # 0
      <4>1. Len(w) \in 1..Len(w)
        BY <1>1, <3>2
      <4> QED
        BY <2>2, <4>1
    <3> QED
      BY <3>1, <3>2
  <2>4. Len(w) = Len(key)
    BY <1>1, <2>1, <2>3
  <2>5. w \in Seq(0..255) /\ key \in Seq(1..255)
    BY DEF String
  <2> QED
    BY <2>2, <2>4, <2>5, SeqEqual
<1> QED
  BY <1>2, <1>3

(* The entries up to one that has the word show the lines behind its line. *)
LEMMA FindWordStep ==
  ASSUME DictInv, D!FindWord
  PROVE  DictInv'
<1>1. PICK t, n, w : t = skip_spaces(input) /\ n = r14 /\ w = SubSeq(t, 1, n)
  OBVIOUS
<1>2. /\ dpc = "find_word" /\ UNCHANGED <<input, pos, BUF, r14, dfailed>>
      /\ stdout = D!NONE /\ stderr = D!NONE
      /\ InWord(t, n, BUF) /\ BUF[n] = NUL
      /\ ~dfailed => FirstWord(input) = w
      /\ entry \in 1..Len(D!DICT)
      /\ \A j \in 1..entry - 1 : D!DICT[j].key # w
  BY <1>1 DEF D!FindWord, DictInv, Finding
<1>3. /\ input \in String /\ t \in String /\ Len(t) \in Nat
      /\ n \in 0..D!size /\ n \in Nat /\ DOMAIN BUF = 0..BUF_SIZE /\ D!size \in Nat
  BY <1>1, SkipIs, DictSize DEF DictInv, DictTypes, String
<1>4. /\ w \in String /\ Len(w) = n /\ \A i \in 1..Len(w) : w[i] # NUL
  <2>1. n <= Len(t) /\ \A i \in 1..n : t[i] # NUL
    BY <1>2 DEF InWord, Separators
  <2>2. w \in Seq(0..255) /\ Len(w) = n /\ \A i \in 1..n : w[i] = t[i]
    <3>1. \A i \in 1..n : t[i] \in 0..255
      <4>1. \A i \in 1..n : i \in 1..Len(t)
        BY <1>3, <2>1
      <4> QED
        BY <1>3, <4>1, ElementOfSeq DEF String
    <3>2. 1 \in Int /\ n \in Int /\ n - 1 + 1 = n /\ (1 <= n \/ n = 0)
      BY <1>3
    <3>3. /\ w \in Seq(0..255) /\ Len(w) = IF 1 <= n THEN n - 1 + 1 ELSE 0
          /\ \A i \in 1..n - 1 + 1 : w[i] = t[1 + i - 1]
      BY <1>1, <3>1, <3>2, SubSeqProperties
    <3>4. Len(w) = n
      BY <3>2, <3>3
    <3>5. ASSUME NEW i \in 1..n PROVE w[i] = t[i]
      <4>1. 1 + i - 1 = i
        OBVIOUS
      <4> QED
        BY <3>2, <3>3, <4>1
    <3> QED
      BY <3>3, <3>4, <3>5
  <2> QED
    BY <2>1, <2>2 DEF String
<1>5. D!string = w
  <2>1. PICK b : b = BUF
    OBVIOUS
  <2>2. D!string = Held(b)
    BY <2>1, SameWords DEF D!string, Held
  <2>3. Held(b) = SubSeq(t, 1, n)
    BY <1>2, <1>3, <2>1, DictString
  <2> QED
    BY <1>1, <2>2, <2>3
<1> DEFINE m == Len(DEFINED)
           L == [key : Seq(1..255), text : STRING]
<1>6. /\ m \in Nat \ {0} /\ DOMAIN DEFINED = 1..m /\ Len(D!DICT) = m
      /\ \A i \in 1..m : D!DICT[i] = DEFINED[m + 1 - i]
      /\ \A i \in 1..m : DEFINED[i] \in L
  <2>1. DEFINED \in Seq(L)
    BY DefinedAssumption
  <2> HIDE DEF L
  <2> QED
    BY <2>1, DictIs, ElementOfSeq
<1>7. D!string_equals(D!string, D!DICT[entry].key) = 1 <=> w = D!DICT[entry].key
  <2>1. m + 1 - entry \in 1..m /\ D!DICT[entry] = DEFINED[m + 1 - entry]
    BY <1>2, <1>6
  <2>2. D!DICT[entry].key \in Seq(1..255)
    BY <1>6, <2>1
  <2> QED
    BY <1>4, <1>5, <2>2, StringsEqual
<1> HIDE DEF m, L
<1>8. ASSUME NEW i \in 1..m, DEFINED[i].key = w
      PROVE  i <= m + 1 - entry
  <2> SUFFICES ASSUME ~(i <= m + 1 - entry) PROVE FALSE
    OBVIOUS
  <2>1. m + 1 - i \in 1..entry - 1 /\ m + 1 - i \in 1..m /\ m + 1 - (m + 1 - i) = i
    BY <1>2, <1>6
  <2>2. D!DICT[m + 1 - i] = DEFINED[i]
    BY <1>6, <2>1
  <2> QED
    BY <1>2, <1>8, <2>1, <2>2
<1>9. /\ input' = input /\ D!BufferKept' /\ DictTypes'
  <2>1. dpc' \in {"read_word", "find_word", "exit"}
    BY <1>2 DEF D!FindWord, D!Errors
  <2> QED
    BY <1>2, <2>1 DEF DictInv, DictTypes, D!BufferKept
<1>10. CASE w = D!DICT[entry].key
  <2>1. stdout' = D!DICT[entry].text /\ dpc' = "exit" /\ stderr' = stderr
    BY <1>7, <1>10 DEF D!FindWord
  <2>2. m + 1 - entry \in 1..m /\ D!DICT[entry] = DEFINED[m + 1 - entry]
    BY <1>2, <1>6
  <2>3. m + 1 - entry \in D!Lines(w) /\ \A i \in D!Lines(w) : i \in Nat /\ i <= m + 1 - entry
    BY <1>6, <1>8, <1>10, <2>2 DEF D!Lines
  <2>4. D!Defines(w) = DEFINED[m + 1 - entry].text
    <3> DEFINE i == CHOOSE j \in D!Lines(w) : \A k \in D!Lines(w) : k <= j
    <3>1. i \in D!Lines(w) /\ \A k \in D!Lines(w) : k <= i
      BY <2>3
    <3> HIDE DEF i
    <3>2. i = m + 1 - entry
      BY <2>2, <2>3, <3>1
    <3> QED
      BY <3>2 DEF D!Defines, i
  <2>5. Reply(w)'
    BY <1>2, <2>1, <2>2, <2>3, <2>4 DEF Reply, D!Defines, D!Lines
  <2>6. Replies'
    <3>1. ~dfailed' => D!FirstWord(input') = w
      BY <1>2, <1>9, SameWords
    <3>2. Len(w) = n /\ ~(n > D!size) /\ dpc' # "find_word"
      BY <1>3, <1>4, <2>1
    <3> QED
      BY <2>5, <3>1, <3>2 DEF Replies, Reply
  <2> QED
    BY <1>9, <2>1, <2>6 DEF DictInv, DictReading, Finding
<1>11. CASE w # D!DICT[entry].key /\ entry < m
  <2>1. entry' = entry + 1 /\ UNCHANGED <<dpc, stdout, stderr>>
    BY <1>6, <1>7, <1>11 DEF D!FindWord, D!next_entry
  <2>2. entry' \in 1..m /\ \A j \in 1..entry' - 1 : j \in 1..entry - 1 \/ j = entry
    BY <1>2, <1>6, <1>11, <2>1
  <2>3. Finding'
    BY <1>1, <1>2, <1>6, <1>11, <2>1, <2>2 DEF Finding, D!DICT
  <2>4. Replies'
    BY <1>2, <2>1 DEF DictInv, Replies, D!string
  <2> QED
    BY <1>2, <1>9, <2>1, <2>3, <2>4 DEF DictInv, DictReading
<1>12. CASE w # D!DICT[entry].key /\ ~(entry < m)
  <2>1. dpc' = "exit" /\ stderr' = D!err_msg2 /\ stdout' = stdout
    BY <1>6, <1>7, <1>12 DEF D!FindWord, D!Errors
  <2>2. D!Lines(w) = {}
    <3> SUFFICES ASSUME NEW i \in 1..m, DEFINED[i].key = w PROVE FALSE
      BY <1>6 DEF D!Lines
    <3>1. entry = m /\ i <= m + 1 - entry
      BY <1>2, <1>6, <1>8, <1>12
    <3>2. i = m + 1 - entry
      BY <1>6, <3>1
    <3> QED
      BY <1>2, <1>6, <1>12, <3>2
  <2>3. Reply(w)'
    BY <1>2, <2>1, <2>2 DEF Reply, D!Lines
  <2>4. Replies'
    <3>1. ~dfailed' => D!FirstWord(input') = w
      BY <1>2, <1>9, SameWords
    <3>2. Len(w) = n /\ ~(n > D!size) /\ dpc' # "find_word"
      BY <1>3, <1>4, <2>1
    <3> QED
      BY <2>3, <3>1, <3>2 DEF Replies, Reply
  <2> QED
    BY <1>9, <2>1, <2>4 DEF DictInv, DictReading, Finding
<1> QED
  BY <1>10, <1>11, <1>12

-----------------------------------------------------------------------------
(* The theorems of the two readers                                         *)

LEMMA IoStays ==
  ASSUME IoInv, UNCHANGED vars
  PROVE  IoInv'
BY DEF IoInv, IoTypes, IoReading, OneByteTooFar, WordsRead, string, vars

LEMMA DictStays ==
  ASSUME DictInv, UNCHANGED dvars
  PROVE  DictInv'
<1>1. Replies'
  <2>1. D!string' = D!string
    BY DEF D!string, dvars
  <2>2. \A word : Reply(word)' <=> Reply(word)
    BY DEF Reply, dvars
  <2>3. TooLong' <=> TooLong
    BY DEF TooLong, dvars
  <2> QED
    BY <2>1, <2>2, <2>3 DEF DictInv, Replies, dvars
<1> QED
  BY <1>1 DEF DictInv, DictTypes, DictReading, Finding, D!BufferKept, dvars

(* Where each reader is in the first word of its text, what it has in its  *)
(* buffer and what it has left, whatever the text and the sizes.           *)
THEOREM Invariance == AsmSpec => [](IoInv /\ DictInv)
<1>1. AsmInit => IoInv /\ DictInv
  BY IoStart, DictStart DEF AsmInit
<1>2. ASSUME IoInv, DictInv, [AsmNext]_<<vars, dvars>>
      PROVE  IoInv' /\ DictInv'
  <2>1. CASE (D!ReadWord \/ D!FindWord) /\ UNCHANGED vars
    BY <1>2, <2>1, IoStays, ReadWordStep, FindWordStep
  <2>2. CASE (Call \/ AllSpaces \/ Word) /\ UNCHANGED dvars
    BY <1>2, <2>2, IoStep, DictStays
  <2>3. CASE UNCHANGED <<vars, dvars>>
    BY <1>2, <2>3, IoStays, DictStays
  <2> QED
    BY <1>2, <2>1, <2>2, <2>3 DEF AsmNext, Reads
<1> QED
  BY <1>1, <1>2, PTL DEF AsmSpec

(* io-library's read_word, called again and again, reads the words of any  *)
(* text in order, takes one separator behind each, and leaves each that    *)
(* fits with its terminator whole and terminated.                          *)
THEOREM InOrder == AsmSpec => []WordsInOrder
<1>1. IoInv => WordsInOrder
  <2> SUFFICES ASSUME IoInv PROVE WordsInOrder
    OBVIOUS
  <2>1. Len(FirstWord(at_call)) > SIZE => Len(FirstWord(at_call)) >= SIZE
    <3>1. at_call \in String /\ 0 \in 0..Len(skip_spaces(at_call))
      BY SkipIs DEF IoInv, IoTypes, String
    <3>2. Len(FirstWord(at_call)) \in Nat
      BY <3>1, FirstWordAtLeast
    <3> QED
      BY <3>2, SizeAssumption
  <2> QED
    BY <2>1 DEF IoInv, IoTypes, WordsRead, WordsInOrder
<1> QED
  BY <1>1, Invariance, PTL

(* The dictionary's read_word writes nothing behind its buffer, whatever   *)
(* the text and the size.                                                  *)
THEOREM Kept == AsmSpec => []DictionaryBufferKept
<1>1. DictInv => DictionaryBufferKept
  BY DEF DictInv, DictionaryBufferKept
<1> QED
  BY <1>1, Invariance, PTL

(* The dictionary prints the text that the last line with the first word   *)
(* of stdin defines, or an error when there is none or the word is too     *)
(* large for the buffer, for any list of lines and any size.               *)
THEOREM Answered == AsmSpec => []DictionaryAnswers
<1>1. DictInv => DictionaryAnswers
  <2> SUFFICES ASSUME Replies PROVE D!FindsDefinition
    BY DEF DictInv, DictionaryAnswers
  <2>1. D!NONE # D!err_msg1 /\ D!NONE # D!err_msg2
    BY DEF D!NONE, D!err_msg1, D!err_msg2
  <2>2. TooLong => D!Refuses
    BY <2>1 DEF TooLong, D!Refuses
  <2>3. \A word : Reply(word) => D!Answers(word)
    BY <2>1 DEF Reply, D!Answers, D!Refuses
  <2> QED
    BY <2>2, <2>3 DEF Replies, D!FindsDefinition
<1> QED
  BY <1>1, Invariance, PTL

-----------------------------------------------------------------------------
(* string_copy                                                             *)

LEMMA CopyFits ==
  ASSUME NEW s \in String, NEW size \in Nat
  PROVE  LET io == io_string_copy(s, size)  dict == dict_string_copy(s, size)
         IN  /\ Len(dict.written) <= size
             /\ (dict.rax # 0) = (Len(s) + 1 <= size)
             /\ dict.rax # 0 => dict.written = Append(s, NUL) /\ io.written = dict.written
             /\ Len(io.written) > size => Len(s) = size /\ Len(io.written) = size + 1
<1> DEFINE io == io_string_copy(s, size)
           dict == dict_string_copy(s, size)
<1>1. /\ Len(s) \in Nat /\ Len(Append(s, NUL)) = Len(s) + 1 /\ Len(<< >>) = 0
      /\ size <= Len(s) => Len(SubSeq(s, 1, size)) = size
  BY DEF String
<1>2. CASE Len(s) < size
  <2>1. dict.rax = Len(s) + 1 /\ dict.written = Append(s, NUL) /\ io.written = Append(s, NUL)
    BY <1>1, <1>2 DEF dict_string_copy, io_string_copy, Copied
  <2>2. Len(dict.written) = Len(s) + 1 /\ Len(io.written) = Len(s) + 1
    BY <1>1, <2>1
  <2> QED
    BY <1>1, <1>2, <2>1, <2>2
<1>3. CASE ~(Len(s) < size)
  <2>1. dict.rax = 0 /\ dict.written = SubSeq(s, 1, size)
    BY <1>1, <1>3 DEF dict_string_copy, Copied
  <2>2. io.written = IF size < Len(s) THEN << >> ELSE Append(s, NUL)
    BY DEF io_string_copy, Copied
  <2>3. Len(io.written) = IF size < Len(s) THEN 0 ELSE Len(s) + 1
    BY <1>1, <2>2
  <2>4. Len(dict.written) = size /\ ~(Len(s) + 1 <= size)
    BY <1>1, <1>3, <2>1
  <2> QED
    BY <1>1, <1>3, <2>1, <2>3, <2>4
<1> QED
  BY <1>2, <1>3

(* What is copied fits, in either library, but for the terminator of a     *)
(* string as long as io-library's buffer, for every string.                *)
THEOREM Copies == AsmSpec => []CopiesWhatFits
<1>1. IoInv => CopiesWhatFits
  <2> SUFFICES ASSUME IoInv, NEW size \in 0..5
               PROVE  LET io == io_string_copy(text, size)  dict == dict_string_copy(text, size)
                      IN  /\ Len(dict.written) <= size
                          /\ (dict.rax # 0) = (Len(text) + 1 <= size)
                          /\ dict.rax # 0 =>
                               dict.written = Append(text, NUL) /\ io.written = dict.written
                          /\ Len(io.written) > size =>
                               Len(text) = size /\ Len(io.written) = size + 1
    BY DEF CopiesWhatFits
  <2>1. text \in String /\ size \in Nat
    BY DEF IoInv, IoTypes, text, String
  <2> QED
    BY <2>1, CopyFits
<1> QED
  BY <1>1, Invariance, PTL

-----------------------------------------------------------------------------
(* Numbers                                                                 *)

(* g goes up from base, one step of F after the other.                     *)
Climbs(g, n, T, base, F) ==
  /\ g \in [0..n -> T]
  /\ \A k \in 0..n : g[k] = IF k = 0 THEN base ELSE F[<<k, g[k - 1]>>]

(* There is such a function.                                               *)
LEMMA ClimbExists ==
  ASSUME NEW T, NEW base \in T, NEW F \in [Nat \X T -> T], NEW n \in Nat
  PROVE  \E g : Climbs(g, n, T, base, F)
<1> DEFINE N == {k \in Nat : \E g : Climbs(g, k, T, base, F)}
<1>1. 0 \in N
  <2> DEFINE g == [k \in 0..0 |-> base]
  <2>1. Climbs(g, 0, T, base, F)
    BY DEF Climbs
  <2> QED
    BY <2>1
<1>2. ASSUME NEW k \in Nat, k \in N
      PROVE  k + 1 \in N
  <2>1. PICK g : Climbs(g, k, T, base, F)
    BY <1>2
  <2>2. g \in [0..k -> T]
    BY <2>1 DEF Climbs
  <2> DEFINE h == [i \in 0..k + 1 |-> IF i = k + 1 THEN F[<<k + 1, g[k]>>] ELSE g[i]]
  <2>3. <<k + 1, g[k]>> \in Nat \X T
    BY <2>2
  <2>4. h \in [0..k + 1 -> T]
    <3>1. ASSUME NEW i \in 0..k + 1
          PROVE  (IF i = k + 1 THEN F[<<k + 1, g[k]>>] ELSE g[i]) \in T
      <4>1. i # k + 1 => i \in 0..k
        OBVIOUS
      <4> QED
        BY <2>2, <2>3, <4>1
    <3> QED
      BY <3>1
  <2>5. /\ \A i \in 0..k : h[i] = g[i]
        /\ h[k + 1] = F[<<k + 1, g[k]>>]
    OBVIOUS
  <2> HIDE DEF h
  <2>6. ASSUME NEW i \in 0..k + 1
        PROVE  h[i] = IF i = 0 THEN base ELSE F[<<i, h[i - 1]>>]
    <3>1. CASE i = k + 1
      <4>1. k \in 0..k /\ i - 1 = k /\ i # 0
        BY <3>1
      <4> QED
        BY <2>5, <3>1, <4>1
    <3>2. CASE i # k + 1
      <4>1. i \in 0..k /\ (i # 0 => i - 1 \in 0..k)
        BY <3>2
      <4>2. g[i] = IF i = 0 THEN base ELSE F[<<i, g[i - 1]>>]
        BY <2>1, <4>1 DEF Climbs
      <4> QED
        BY <2>5, <4>1, <4>2
    <3> QED
      BY <3>1, <3>2
  <2>7. Climbs(h, k + 1, T, base, F)
    BY <2>4, <2>6 DEF Climbs
  <2> QED
    BY <2>7
<1> HIDE DEF N
<1>3. n \in N
  BY <1>1, <1>2, EveryNatural
<1> QED
  BY <1>3 DEF N

(* A register holds a number of values, one at least.                      *)
LEMMA RegisterIs == register \in Nat \ {0}
<1> DEFINE T == Nat \ {0}
           F == [p \in Nat \X T |-> 2 * p[2]]
           Is(f) == f = [k \in 0..W |-> IF k = 0 THEN 1 ELSE 2 * f[k - 1]]
           power == CHOOSE f : Is(f)
<1>1. register = power[W] /\ W \in Nat
  BY WidthAssumption DEF register
<1>2. F \in [Nat \X T -> T] /\ 1 \in T
  OBVIOUS
<1>3. PICK g : Climbs(g, W, T, 1, F)
  <2> HIDE DEF T, F
  <2> QED
    BY <1>1, <1>2, ClimbExists
<1>4. Is(g)
  <2>1. ASSUME NEW k \in 0..W, k # 0
        PROVE  F[<<k, g[k - 1]>>] = 2 * g[k - 1]
    <3>1. k - 1 \in 0..W
      BY <1>1, <2>1
    <3>2. g[k - 1] \in T
      BY <1>3, <3>1 DEF Climbs
    <3>3. PICK q : q = g[k - 1]
      OBVIOUS
    <3>4. <<k, q>> \in Nat \X T /\ <<k, q>>[2] = q
      BY <1>1, <3>2, <3>3
    <3>5. F[<<k, q>>] = 2 * q
      BY <3>4
    <3> QED
      BY <3>3, <3>5
  <2>2. \A k \in 0..W : g[k] = IF k = 0 THEN 1 ELSE 2 * g[k - 1]
    BY <1>3, <2>1 DEF Climbs
  <2>3. g = [k \in 0..W |-> g[k]]
    BY <1>3 DEF Climbs
  <2> QED
    BY <2>2, <2>3
<1>5. Is(power)
  <2> HIDE DEF Is
  <2> QED
    BY <1>4, Zenon
<1>6. PICK f : f = power
  OBVIOUS
<1> HIDE DEF power
<1>7. \A k \in 0..W : f[k] = IF k = 0 THEN 1 ELSE 2 * f[k - 1]
  BY <1>5, <1>6
<1> HIDE DEF Is, F
<1> DEFINE N == {k \in Nat : k <= W => f[k] \in Nat \ {0}}
<1>8. 0 \in N
  BY <1>1, <1>7
<1>9. ASSUME NEW k \in Nat, k \in N
      PROVE  k + 1 \in N
  <2> SUFFICES ASSUME k + 1 <= W PROVE f[k + 1] \in Nat \ {0}
    OBVIOUS
  <2>1. k \in 0..W /\ k + 1 \in 0..W /\ k <= W /\ k + 1 # 0 /\ k + 1 - 1 = k
    BY <1>1
  <2>2. f[k] \in Nat \ {0} /\ f[k + 1] = 2 * f[k]
    BY <1>7, <1>9, <2>1
  <2> QED
    BY <2>2
<1> HIDE DEF N
<1>10. W \in N
  BY <1>1, <1>8, <1>9, EveryNatural
<1> QED
  BY <1>1, <1>6, <1>10 DEF N

(* Multiples do not count modulo r.                                        *)
LEMMA ModPlus ==
  ASSUME NEW r \in Nat \ {0}, NEW a \in Nat, NEW b \in Nat
  PROVE  (r * a + b) % r = b % r
<1>1. b % r \in 0..r - 1 /\ b \div r \in Nat /\ b = r * (b \div r) + (b % r)
  OBVIOUS
<1>2. PICK q, m : q = b \div r /\ m = b % r
  OBVIOUS
<1>3. q \in Nat /\ m \in 0..r - 1 /\ b = r * q + m
  BY <1>1, <1>2
<1>4. r * a + b = (a + q) * r + m
  BY <1>3
<1>5. a + q \in Nat /\ r \in Nat
  BY <1>3
<1>6. ((a + q) * r + m) % r = m
  BY <1>3, <1>5, RowAndColumn
<1> QED
  BY <1>2, <1>4, <1>6

LEMMA ModStep ==
  ASSUME NEW r \in Nat \ {0}, NEW x \in Nat, NEW c \in Nat
  PROVE  ((x % r) * 10 + c) % r = (c + 10 * x) % r
<1>1. x % r \in 0..r - 1 /\ x \div r \in Nat /\ x = r * (x \div r) + (x % r)
  OBVIOUS
<1>2. PICK q, m : q = x \div r /\ m = x % r
  OBVIOUS
<1>3. q \in Nat /\ m \in Nat /\ x = r * q + m
  BY <1>1, <1>2
<1>4. c + 10 * x = r * (10 * q) + (m * 10 + c)
  <2>1. 10 * x = 10 * (r * q) + 10 * m /\ r * q \in Nat
    BY <1>3
  <2>2. 10 * (r * q) = r * (10 * q)
    BY <1>3
  <2> QED
    BY <1>3, <2>1, <2>2
<1>5. 10 * q \in Nat /\ m * 10 + c \in Nat
  BY <1>3
<1>6. (r * (10 * q) + (m * 10 + c)) % r = (m * 10 + c) % r
  BY <1>5, ModPlus
<1> QED
  BY <1>2, <1>4, <1>6

LEMMA ModSmall ==
  ASSUME NEW r \in Nat \ {0}, NEW x \in 0..r - 1
  PROVE  x % r = x
<1>1. 0 * r + x = x /\ r \in Nat
  OBVIOUS
<1>2. (0 * r + x) % r = x
  BY <1>1, RowAndColumn
<1> QED
  BY <1>1, <1>2

(* The digits at the beginning are what parse_uint takes.                  *)
LEMMA DigitsOf ==
  ASSUME NEW s \in String, NEW k \in 0..Len(s), \A i \in 1..k : s[i] \in Digits,
         byte(s, k + 1) \notin Digits
  PROVE  digits_of(s) = SubSeq(s, 1, k)
<1> DEFINE t == Append(s, NUL)
           I == {i \in 1..Len(t) : ~is_digit(t[i])}
<1>1. Len(s) \in Nat /\ Len(t) = Len(s) + 1 /\ k + 1 \in 1..Len(t)
  BY DEF String
<1>2. \A i \in 1..Len(t) : t[i] = byte(s, i) /\ t[i] \in 0..255
  <2>1. s \in Seq(0..255) /\ NUL \in 0..255
    BY DEF String, NUL
  <2>2. /\ \A i \in 1..Len(s) : t[i] = s[i] /\ s[i] \in 0..255
        /\ t[Len(s) + 1] = NUL
    BY <2>1, AppendProperties, ElementOfSeq
  <2> HIDE DEF t
  <2> SUFFICES ASSUME NEW i \in 1..Len(t) PROVE t[i] = byte(s, i) /\ t[i] \in 0..255
    OBVIOUS
  <2>3. CASE i <= Len(s)
    <3>1. i \in 1..Len(s)
      BY <1>1, <2>3
    <3> QED
      BY <2>2, <2>3, <3>1 DEF byte
  <2>4. CASE ~(i <= Len(s))
    <3>1. i = Len(s) + 1
      BY <1>1, <2>4
    <3> QED
      BY <2>1, <2>2, <2>4, <3>1 DEF byte
  <2> QED
    BY <2>3, <2>4
<1>3. \A c \in 0..255 : is_digit(c) <=> c \in Digits
  BY DEF is_digit, Digits, ZERO
<1>4. digits_of(s) = SubSeq(s, 1, (IF I # {} THEN Min(I) ELSE 0) - 1)
  BY DEF digits_of, SelectInSeq
<1> HIDE DEF t
<1>5. k + 1 \in I
  BY <1>1, <1>2, <1>3
<1>6. \A i \in I : k + 1 <= i
  <2> SUFFICES ASSUME NEW i \in 1..Len(t), i <= k PROVE is_digit(t[i])
    BY <1>1
  <2>1. i \in 1..k /\ i <= Len(s)
    BY <1>1
  <2> QED
    BY <1>2, <1>3, <2>1 DEF byte
<1>7. I \in SUBSET Nat
  BY <1>1
<1> HIDE DEF I
<1>8. Min(I) = k + 1 /\ I # {}
  BY <1>5, <1>6, <1>7, MinIs
<1>9. k + 1 - 1 = k
  BY <1>1
<1> QED
  BY <1>4, <1>8, <1>9

(* There is such a number of digits.                                       *)
LEMMA DigitsSome ==
  ASSUME NEW s \in String
  PROVE  \E k \in 0..Len(s) : /\ \A i \in 1..k : s[i] \in Digits
                              /\ byte(s, k + 1) \notin Digits
                              /\ digits_of(s) = SubSeq(s, 1, k)
<1> DEFINE I == {k \in 0..Len(s) : byte(s, k + 1) \notin Digits}
<1>1. Len(s) \in Nat
  BY DEF String
<1>2. Len(s) \in I
  BY <1>1 DEF byte, Digits, ZERO, NUL
<1>3. I \in SUBSET Nat
  BY <1>1
<1>4. PICK k \in I : \A m \in I : k <= m
  BY <1>2, <1>3, LeastElement
<1>5. \A i \in 1..k : s[i] \in Digits
  <2> SUFFICES ASSUME NEW i \in 1..k, s[i] \notin Digits PROVE FALSE
    OBVIOUS
  <2>1. i - 1 \in 0..Len(s) /\ i - 1 + 1 = i /\ i <= Len(s) /\ ~(k <= i - 1)
    BY <1>1, <1>4
  <2>2. byte(s, i - 1 + 1) \notin Digits
    BY <2>1 DEF byte
  <2> QED
    BY <1>4, <2>1, <2>2
<1> QED
  BY <1>4, <1>5, DigitsOf

LEMMA DigitsAll ==
  ASSUME NEW d \in Seq(Digits)
  PROVE  d \in String /\ digits_of(d) = d
<1>1. Len(d) \in Nat /\ \A i \in 1..Len(d) : d[i] \in Digits
  BY ElementOfSeq
<1>2. d \in String
  BY DEF String, Digits, ZERO
<1>3. byte(d, Len(d) + 1) \notin Digits
  BY <1>1 DEF byte, Digits, ZERO, NUL
<1>4. Len(d) \in 0..Len(d)
  BY <1>1
<1>5. digits_of(d) = SubSeq(d, 1, Len(d))
  BY <1>1, <1>2, <1>3, <1>4, DigitsOf
<1>6. /\ SubSeq(d, 1, Len(d)) \in Seq(Digits)
      /\ Len(SubSeq(d, 1, Len(d))) = Len(d)
      /\ \A i \in 1..Len(d) : SubSeq(d, 1, Len(d))[i] = d[i]
  <2> DEFINE e == SubSeq(d, 1, Len(d))
  <2>1. /\ e \in Seq(Digits) /\ Len(e) = IF 1 <= Len(d) THEN Len(d) - 1 + 1 ELSE 0
        /\ \A i \in 1 .. Len(d) - 1 + 1 : e[i] = d[1 + i - 1]
    BY <1>1, SubSeqProperties
  <2> HIDE DEF e
  <2>2. Len(e) = Len(d) /\ \A i \in 1..Len(d) : e[i] = d[i]
    BY <1>1, <2>1
  <2> QED
    BY <2>1, <2>2 DEF e
<1>7. SubSeq(d, 1, Len(d)) = d
  BY <1>6, SeqEqual
<1> QED
  BY <1>2, <1>5, <1>7

(* The values of the first parts of a row of digits.                       *)
Values(v, d) ==
  /\ v \in [0..Len(d) -> Nat]
  /\ v[0] = 0
  /\ \A k \in 1..Len(d) : v[k] = (d[k] - ZERO) + 10 * v[k - 1]

LEMMA ValueIs ==
  ASSUME NEW d \in Seq(Digits)
  PROVE  \E v : Values(v, d) /\ Denotes(d) = v[Len(d)]
<1> DEFINE n == Len(d)
           F == [p \in Nat \X Nat |-> IF p[1] \in 1..n THEN (d[p[1]] - ZERO) + 10 * p[2] ELSE 0]
           Is(f) == f = [k \in 0..n |-> IF k = 0 THEN 0 ELSE (d[k] - ZERO) + 10 * f[k - 1]]
           value == CHOOSE f : Is(f)
<1>1. Denotes(d) = value[n]
  BY DEF Denotes
<1>2. n \in Nat /\ \A i \in 1..n : d[i] - ZERO \in 0..9
  <2>1. \A i \in 1..n : d[i] \in Digits
    BY ElementOfSeq
  <2> QED
    BY <2>1 DEF Digits, ZERO
<1> HIDE DEF n
<1>3. F \in [Nat \X Nat -> Nat]
  <2> SUFFICES ASSUME NEW p \in Nat \X Nat
               PROVE  (IF p[1] \in 1..n THEN (d[p[1]] - ZERO) + 10 * p[2] ELSE 0) \in Nat
    OBVIOUS
  <2>1. p[2] \in Nat
    OBVIOUS
  <2>2. p[1] \in 1..n => d[p[1]] - ZERO \in 0..9
    BY <1>2
  <2> QED
    BY <2>1, <2>2
<1>4. PICK g : Climbs(g, n, Nat, 0, F)
  <2> HIDE DEF F
  <2>1. 0 \in Nat
    OBVIOUS
  <2> QED
    BY <1>2, <1>3, <2>1, ClimbExists
<1>5. Is(g)
  <2>1. ASSUME NEW k \in 0..n, k # 0
        PROVE  F[<<k, g[k - 1]>>] = (d[k] - ZERO) + 10 * g[k - 1]
    <3>1. k - 1 \in 0..n /\ k \in 1..n /\ k \in Nat
      BY <1>2, <2>1
    <3>2. g[k - 1] \in Nat
      BY <1>4, <3>1 DEF Climbs
    <3>3. PICK q : q = g[k - 1]
      OBVIOUS
    <3>4. <<k, q>> \in Nat \X Nat /\ <<k, q>>[1] = k /\ <<k, q>>[2] = q
      BY <3>1, <3>2, <3>3
    <3>5. F[<<k, q>>] = (d[k] - ZERO) + 10 * q
      BY <3>1, <3>4
    <3> QED
      BY <3>3, <3>5
  <2> HIDE DEF F
  <2>2. \A k \in 0..n : g[k] = IF k = 0 THEN 0 ELSE (d[k] - ZERO) + 10 * g[k - 1]
    BY <1>4, <2>1 DEF Climbs
  <2>3. g = [k \in 0..n |-> g[k]]
    BY <1>4 DEF Climbs
  <2> QED
    BY <2>2, <2>3
<1>6. Is(value)
  <2> HIDE DEF Is
  <2> QED
    BY <1>5, Zenon
<1>7. PICK f : f = value
  OBVIOUS
<1> HIDE DEF value
<1>8. /\ DOMAIN f = 0..n /\ f = [k \in 0..n |-> f[k]]
      /\ \A k \in 0..n : f[k] = IF k = 0 THEN 0 ELSE (d[k] - ZERO) + 10 * f[k - 1]
  BY <1>6, <1>7
<1> HIDE DEF Is, F
<1> DEFINE N == {k \in Nat : k <= n => f[k] \in Nat}
<1>9. 0 \in N
  BY <1>2, <1>8
<1>10. ASSUME NEW k \in Nat, k \in N
       PROVE  k + 1 \in N
  <2> SUFFICES ASSUME k + 1 <= n PROVE f[k + 1] \in Nat
    OBVIOUS
  <2>1. k + 1 \in 0..n /\ k + 1 \in 1..n /\ k <= n /\ k + 1 # 0 /\ k + 1 - 1 = k
    BY <1>2
  <2>2. f[k] \in Nat
    BY <1>10, <2>1
  <2>3. f[k + 1] = (d[k + 1] - ZERO) + 10 * f[k + 1 - 1]
    <3>1. \A j \in 0..n : f[j] = IF j = 0 THEN 0 ELSE (d[j] - ZERO) + 10 * f[j - 1]
      BY <1>8
    <3>2. PICK j : j = k + 1
      OBVIOUS
    <3>3. f[j] = IF j = 0 THEN 0 ELSE (d[j] - ZERO) + 10 * f[j - 1]
      BY <2>1, <3>1, <3>2
    <3>4. f[j] = (d[j] - ZERO) + 10 * f[j - 1]
      BY <2>1, <3>2, <3>3
    <3> QED
      BY <3>2, <3>4
  <2>4. PICK a, b : a = d[k + 1] - ZERO /\ b = f[k]
    OBVIOUS
  <2>5. a \in 0..9 /\ b \in Nat /\ f[k + 1] = a + 10 * b
    BY <1>2, <2>1, <2>2, <2>3, <2>4
  <2> QED
    BY <2>5
<1>11. \A k \in 0..n : f[k] \in Nat
  <2> HIDE DEF N
  <2>1. Nat \subseteq N
    BY <1>9, <1>10, EveryNatural
  <2> USE DEF N
  <2> QED
    BY <1>2, <2>1
<1>12. Values(f, d)
  <2>1. \A k \in 1..n : k \in 0..n /\ k # 0
    BY <1>2
  <2>2. 0 \in 0..n
    BY <1>2
  <2> QED
    BY <1>8, <1>11, <2>1, <2>2 DEF Values, n
<1> QED
  BY <1>1, <1>7, <1>12 DEF n

(* Equal digits have equal values.                                         *)
LEMMA SameValues ==
  ASSUME NEW d, NEW e, NEW v, NEW w, Values(v, d), Values(w, e),
         NEW n \in Nat, Len(d) \in Nat, Len(e) \in Nat, n <= Len(d), n <= Len(e),
         \A i \in 1..n : d[i] = e[i]
  PROVE  v[n] = w[n]
<1> DEFINE N == {k \in Nat : k <= n => v[k] = w[k]}
<1>1. 0 \in N
  BY DEF Values
<1>2. ASSUME NEW k \in Nat, k \in N
      PROVE  k + 1 \in N
  <2> SUFFICES ASSUME k + 1 <= n PROVE v[k + 1] = w[k + 1]
    OBVIOUS
  <2>1. k + 1 \in 1..n /\ k + 1 \in 1..Len(d) /\ k + 1 \in 1..Len(e) /\ k <= n
        /\ k + 1 - 1 = k
    OBVIOUS
  <2> QED
    BY <1>2, <2>1 DEF Values
<1> HIDE DEF N
<1>3. n \in N
  BY <1>1, <1>2, EveryNatural
<1> QED
  BY <1>3 DEF N

(* parse_uint's loop computes the number that the digits denote.           *)
LEMMA Parsed ==
  ASSUME NEW s \in String, NEW d \in Seq(Digits), digits_of(s) = d
  PROVE  parse_uint(s) = Result(Denotes(d) % register, Len(d))
<1> DEFINE n == Len(d)
           R == register
           F == [p \in Nat \X Nat |->
                   IF p[1] \in 1..n THEN (p[2] * 10 + d[p[1]] - ZERO) % R ELSE 0]
           Is(f) == f = [S \in SUBSET (1..n) |->
                           IF S = {} THEN 0
                           ELSE (f[S \ {Max(S)}] * 10 + d[Max(S)] - ZERO) % R]
           iter == CHOOSE f : Is(f)
<1>1. n \in Nat /\ DOMAIN d = 1..n /\ \A i \in 1..n : d[i] \in Nat /\ d[i] - ZERO \in 0..9
  <2>1. \A i \in 1..n : d[i] \in Digits
    BY ElementOfSeq
  <2> QED
    BY <2>1 DEF Digits, ZERO
<1>2. parse_uint(s) = Result(iter[1..n], n)
  BY <1>1 DEF parse_uint, FoldLeft, MapThenFoldSet, Max
<1>3. PICK v : Values(v, d) /\ Denotes(d) = v[n]
  BY ValueIs
<1> HIDE DEF n
<1>4. R \in Nat \ {0} /\ ZERO = 48
  BY RegisterIs DEF ZERO
<1> HIDE DEF R
<1>5. F \in [Nat \X Nat -> Nat]
  <2> SUFFICES ASSUME NEW p \in Nat \X Nat
               PROVE  (IF p[1] \in 1..n THEN (p[2] * 10 + d[p[1]] - ZERO) % R ELSE 0) \in Nat
    OBVIOUS
  <2>1. p[2] \in Nat
    OBVIOUS
  <2>2. CASE p[1] \in 1..n
    <3>1. PICK a, b : a = p[2] /\ b = d[p[1]]
      OBVIOUS
    <3>2. a \in Nat /\ b \in Nat /\ b - ZERO \in 0..9
      BY <1>1, <2>1, <2>2, <3>1
    <3>3. a * 10 + b - ZERO \in Nat
      BY <1>4, <3>2
    <3>4. (a * 10 + b - ZERO) % R \in Nat
      BY <1>4, <3>3
    <3> QED
      BY <2>2, <3>1, <3>4
  <2> QED
    BY <2>2
<1>6. PICK g : Folds(g, n, Nat, 0, F)
  <2> HIDE DEF F
  <2>1. 0 \in Nat
    OBVIOUS
  <2> QED
    BY <1>1, <1>5, <2>1, FoldExists
<1>7. Is(g)
  <2>1. ASSUME NEW S \in SUBSET (1..n), S # {}
        PROVE  g[S] = (g[S \ {Max(S)}] * 10 + d[Max(S)] - ZERO) % R
    <3>1. Max(S) \in 1..n
      BY <1>1, <2>1, MaxIn
    <3>2. g[S \ {Max(S)}] \in Nat
      BY <1>6 DEF Folds
    <3>3. PICK m, q : m = Max(S) /\ q = g[S \ {Max(S)}]
      OBVIOUS
    <3>4. g[S] = F[<<m, q>>]
      BY <1>6, <2>1, <3>3 DEF Folds
    <3>5. m \in 1..n /\ <<m, q>> \in Nat \X Nat /\ <<m, q>>[1] = m /\ <<m, q>>[2] = q
      BY <1>1, <3>1, <3>2, <3>3
    <3>6. F[<<m, q>>] = (q * 10 + d[m] - ZERO) % R
      BY <3>5
    <3> QED
      BY <3>3, <3>4, <3>6
  <2> HIDE DEF F
  <2>2. \A S \in SUBSET (1..n) :
          g[S] = IF S = {} THEN 0 ELSE (g[S \ {Max(S)}] * 10 + d[Max(S)] - ZERO) % R
    BY <1>6, <2>1 DEF Folds
  <2>3. g = [S \in SUBSET (1..n) |-> g[S]]
    BY <1>6 DEF Folds
  <2> QED
    BY <2>2, <2>3
<1>8. Is(iter)
  <2> HIDE DEF Is
  <2> QED
    BY <1>7, Zenon
<1>9. PICK it : it = iter
  OBVIOUS
<1> HIDE DEF iter
<1>10. \A S \in SUBSET (1..n) :
         it[S] = IF S = {} THEN 0 ELSE (it[S \ {Max(S)}] * 10 + d[Max(S)] - ZERO) % R
  BY <1>8, <1>9
<1> HIDE DEF F, Is
<1>11. /\ v[0] = 0
       /\ \A k \in 0..n : v[k] \in Nat
       /\ \A k \in 1..n : v[k] = (d[k] - ZERO) + 10 * v[k - 1]
  BY <1>3 DEF Values, n
<1> DEFINE N == {k \in Nat : k <= n => it[1..k] = v[k] % R}
<1>12. 0 \in N
  <2>1. 1..0 = {} /\ 1..0 \in SUBSET (1..n)
    OBVIOUS
  <2>2. it[1..0] = 0
    BY <1>10, <2>1
  <2>3. 0 % R = 0
    BY <1>4
  <2> QED
    BY <1>11, <2>2, <2>3
<1>13. ASSUME NEW k \in Nat, k \in N
       PROVE  k + 1 \in N
  <2> SUFFICES ASSUME k + 1 <= n PROVE it[1..k + 1] = v[k + 1] % R
    OBVIOUS
  <2>1. 1..k + 1 \in SUBSET (1..n) /\ k <= n /\ k \in 0..n /\ k + 1 \in 1..n
        /\ k + 1 - 1 = k
    BY <1>1
  <2>2. 1..k + 1 # {} /\ Max(1..k + 1) = k + 1 /\ (1..k + 1) \ {k + 1} = 1..k
    BY LastOf
  <2>3. it[1..k + 1] = (it[1..k] * 10 + d[k + 1] - ZERO) % R
    <3>1. it[1..k + 1] = (it[(1..k + 1) \ {Max(1..k + 1)}] * 10 + d[Max(1..k + 1)] - ZERO) % R
      BY <1>10, <2>1, <2>2
    <3> QED
      BY <2>2, <3>1
  <2>4. it[1..k] = v[k] % R
    BY <1>13, <2>1
  <2>5. PICK x, c, y : x = v[k] /\ c = d[k + 1] - ZERO /\ y = v[k] % R
    OBVIOUS
  <2>6. x \in Nat /\ c \in 0..9 /\ y \in Nat
    <3>1. x \in Nat
      BY <1>11, <2>1, <2>5
    <3>2. x % R \in 0..R - 1
      BY <1>4, <3>1
    <3>3. y \in Nat
      BY <2>5, <3>2, <1>4
    <3> QED
      BY <1>1, <2>1, <2>5, <3>1, <3>3
  <2>7. v[k + 1] = c + 10 * x
    BY <1>11, <2>1, <2>5
  <2>8. it[1..k + 1] = (y * 10 + c) % R
    <3>1. PICK e : e = d[k + 1]
      OBVIOUS
    <3>2. e \in Nat /\ c = e - ZERO
      BY <1>1, <2>1, <2>5, <3>1
    <3>3. y * 10 + e - ZERO = y * 10 + c
      BY <1>4, <2>6, <3>2
    <3>4. it[1..k + 1] = (y * 10 + e - ZERO) % R
      BY <2>3, <2>4, <2>5, <3>1
    <3> QED
      BY <3>3, <3>4
  <2>9. ((x % R) * 10 + c) % R = (c + 10 * x) % R
    <3>1. c \in Nat
      BY <2>6
    <3> QED
      BY <1>4, <2>6, <3>1, ModStep
  <2> QED
    BY <2>5, <2>7, <2>8, <2>9
<1> HIDE DEF N
<1>14. n \in N
  BY <1>1, <1>12, <1>13, EveryNatural
<1>15. it[1..n] = v[n] % R
  BY <1>1, <1>14 DEF N
<1> QED
  BY <1>2, <1>3, <1>9, <1>15 DEF n, R

(* Every text is read up to the end of its digits.                         *)
LEMMA RunParsed ==
  ASSUME NEW s \in String
  PROVE  ParsesRun(s)
<1>1. PICK k \in 0..Len(s) : /\ \A i \in 1..k : s[i] \in Digits
                             /\ byte(s, k + 1) \notin Digits
                             /\ digits_of(s) = SubSeq(s, 1, k)
  BY DigitsSome
<1>2. Len(s) \in Nat
  BY DEF String
<1>3. SubSeq(s, 1, k) \in Seq(Digits) /\ Len(SubSeq(s, 1, k)) = k
  <2> DEFINE e == SubSeq(s, 1, k)
  <2>1. k \in Int /\ 1 \in Int
    BY <1>2
  <2>2. e \in Seq(Digits) /\ Len(e) = IF 1 <= k THEN k - 1 + 1 ELSE 0
    BY <1>1, <2>1, SubSeqProperties
  <2> HIDE DEF e
  <2>3. Len(e) = k
    BY <1>2, <2>2
  <2> QED
    BY <2>2, <2>3 DEF e
<1>4. parse_uint(s) = Result(Denotes(SubSeq(s, 1, k)) % register, k)
  BY <1>1, <1>3, Parsed
<1>5. parse_uint(s).rdx = k /\ parse_uint(s).rax = Denotes(SubSeq(s, 1, k)) % register
  BY <1>4 DEF Result
<1> QED
  BY <1>1, <1>5 DEF ParsesRun

LEMMA OneDigit ==
  ASSUME NEW c \in Digits
  PROVE  <<c>> \in Seq(Digits) /\ Len(<<c>>) = 1 /\ Denotes(<<c>>) = c - ZERO
<1>1. <<c>> \in Seq(Digits) /\ Len(<<c>>) = 1 /\ <<c>>[1] = c
  OBVIOUS
<1>2. PICK d : d = <<c>>
  OBVIOUS
<1>3. d \in Seq(Digits) /\ Len(d) = 1 /\ d[1] = c
  BY <1>1, <1>2
<1>4. PICK v : Values(v, d) /\ Denotes(d) = v[Len(d)]
  BY <1>3, ValueIs
<1>5. v[1] = (d[1] - ZERO) + 10 * v[1 - 1] /\ v[0] = 0
  BY <1>3, <1>4 DEF Values
<1>6. v[1] = c - ZERO
  BY <1>3, <1>5 DEF Digits, ZERO
<1> QED
  BY <1>1, <1>2, <1>3, <1>4, <1>6

LEMMA OneMoreDigit ==
  ASSUME NEW p \in Seq(Digits), NEW c \in Digits
  PROVE  /\ Append(p, c) \in Seq(Digits) /\ Len(Append(p, c)) = Len(p) + 1
         /\ Denotes(Append(p, c)) = (c - ZERO) + 10 * Denotes(p)
<1>1. PICK d : d = Append(p, c)
  OBVIOUS
<1>2. /\ d \in Seq(Digits) /\ Len(d) = Len(p) + 1 /\ d[Len(p) + 1] = c /\ Len(p) \in Nat
      /\ \A i \in 1..Len(p) : d[i] = p[i]
  BY <1>1, AppendProperties
<1>3. PICK v : Values(v, d) /\ Denotes(d) = v[Len(d)]
  BY <1>2, ValueIs
<1>4. PICK w : Values(w, p) /\ Denotes(p) = w[Len(p)]
  BY ValueIs
<1>5. Len(d) \in Nat /\ Len(p) <= Len(d) /\ Len(p) <= Len(p)
  BY <1>2
<1>6. v[Len(p)] = w[Len(p)]
  BY <1>2, <1>3, <1>4, <1>5, SameValues
<1>7. Len(p) + 1 \in 1..Len(d) /\ Len(p) + 1 - 1 = Len(p)
  BY <1>2
<1>8. v[Len(p) + 1] = (d[Len(p) + 1] - ZERO) + 10 * v[Len(p) + 1 - 1]
  BY <1>3, <1>7 DEF Values
<1>9. Denotes(d) = (c - ZERO) + 10 * Denotes(p)
  BY <1>2, <1>3, <1>4, <1>6, <1>7, <1>8
<1> QED
  BY <1>1, <1>2, <1>9

(* The digits of the numbers up to n.                                      *)
Prints(g, n) ==
  /\ g \in [0..n -> Seq(Digits)]
  /\ \A k \in 0..n : g[k] = IF k < 10 THEN <<ZERO + k>>
                            ELSE Append(g[k \div 10], ZERO + (k % 10))

LEMMA LastDigit ==
  ASSUME NEW k \in Nat
  PROVE  /\ ZERO + (k % 10) \in Digits /\ k % 10 \in 0..9
         /\ k < 10 => ZERO + k \in Digits
         /\ k >= 10 => k \div 10 \in 0..k - 1
         /\ k \div 10 \in Nat /\ k = 10 * (k \div 10) + (k % 10)
BY DEF Digits, ZERO

LEMMA PrintsExists ==
  ASSUME NEW n \in Nat
  PROVE  \E g : Prints(g, n)
<1> DEFINE N == {k \in Nat : \E g : Prints(g, k)}
<1>1. 0 \in N
  <2> DEFINE g == [k \in 0..0 |-> <<ZERO + k>>]
  <2>1. 0 < 10 /\ ZERO + 0 \in Digits
    BY LastDigit
  <2>2. g \in [0..0 -> Seq(Digits)]
    <3> SUFFICES ASSUME NEW k \in 0..0 PROVE <<ZERO + k>> \in Seq(Digits)
      OBVIOUS
    <3>1. ZERO + k \in Digits
      BY <2>1
    <3> QED
      BY <3>1
  <2>3. \A k \in 0..0 : g[k] = <<ZERO + k>> /\ k < 10
    BY <2>1
  <2> HIDE DEF g
  <2>4. Prints(g, 0)
    BY <2>2, <2>3 DEF Prints
  <2> QED
    BY <2>4
<1>2. ASSUME NEW k \in Nat, k \in N
      PROVE  k + 1 \in N
  <2>1. PICK g : Prints(g, k)
    BY <1>2
  <2>2. g \in [0..k -> Seq(Digits)]
    BY <2>1 DEF Prints
  <2> DEFINE next == IF k + 1 < 10 THEN <<ZERO + (k + 1)>>
                     ELSE Append(g[(k + 1) \div 10], ZERO + ((k + 1) % 10))
             h == [i \in 0..k + 1 |-> IF i = k + 1 THEN next ELSE g[i]]
  <2>3. next \in Seq(Digits)
    <3>1. k + 1 \in Nat
      OBVIOUS
    <3>2. CASE k + 1 < 10
      <4>1. ZERO + (k + 1) \in Digits
        BY <3>1, <3>2, LastDigit
      <4> QED
        BY <3>2, <4>1
    <3>3. CASE ~(k + 1 < 10)
      <4>1. k + 1 >= 10 /\ k + 1 - 1 = k
        BY <3>1, <3>3
      <4>2. (k + 1) \div 10 \in 0..k /\ ZERO + ((k + 1) % 10) \in Digits
        BY <3>1, <4>1, LastDigit
      <4>3. g[(k + 1) \div 10] \in Seq(Digits)
        BY <2>2, <4>2
      <4>4. Append(g[(k + 1) \div 10], ZERO + ((k + 1) % 10)) \in Seq(Digits)
        BY <4>2, <4>3, AppendProperties
      <4> QED
        BY <3>3, <4>4
    <3> QED
      BY <3>2, <3>3
  <2> HIDE DEF next
  <2>4. h \in [0..k + 1 -> Seq(Digits)]
    <3>1. ASSUME NEW i \in 0..k + 1
          PROVE  (IF i = k + 1 THEN next ELSE g[i]) \in Seq(Digits)
      <4>1. i # k + 1 => i \in 0..k
        OBVIOUS
      <4> QED
        BY <2>2, <2>3, <4>1
    <3> QED
      BY <3>1
  <2>5. h[k + 1] = next /\ \A i \in 0..k : h[i] = g[i]
    OBVIOUS
  <2> HIDE DEF h
  <2>6. ASSUME NEW i \in 0..k + 1
        PROVE  h[i] = IF i < 10 THEN <<ZERO + i>>
                      ELSE Append(h[i \div 10], ZERO + (i % 10))
    <3>1. i \in Nat /\ (~(i < 10) => i >= 10 /\ i \div 10 \in 0..i - 1)
      BY LastDigit
    <3>2. ~(i < 10) => i \div 10 \in 0..k
      BY <3>1
    <3>3. ~(i < 10) => h[i \div 10] = g[i \div 10]
      BY <2>5, <3>2
    <3>4. CASE i = k + 1
      BY <2>5, <3>3, <3>4 DEF next
    <3>5. CASE i # k + 1
      <4>1. i \in 0..k
        BY <3>5
      <4>2. h[i] = g[i]
        BY <2>5, <4>1
      <4>3. g[i] = IF i < 10 THEN <<ZERO + i>> ELSE Append(g[i \div 10], ZERO + (i % 10))
        BY <2>1, <4>1 DEF Prints
      <4> QED
        BY <3>3, <4>2, <4>3
    <3> QED
      BY <3>4, <3>5
  <2>7. Prints(h, k + 1)
    BY <2>4, <2>6 DEF Prints
  <2> QED
    BY <2>7
<1> HIDE DEF N
<1>3. n \in N
  BY <1>1, <1>2, EveryNatural
<1> QED
  BY <1>3 DEF N

(* print_uint writes digits that denote the number.                        *)
LEMMA PrintIs ==
  ASSUME NEW m \in Nat
  PROVE  /\ print_uint(m) \in Seq(Digits) /\ Len(print_uint(m)) \in Nat \ {0}
         /\ Denotes(print_uint(m)) = m
<1> DEFINE Is(f) == f = [n \in 0..m |-> IF n < 10 THEN <<ZERO + n>>
                                        ELSE Append(f[n \div 10], ZERO + (n % 10))]
           text0 == CHOOSE f : Is(f)
<1>1. print_uint(m) = text0[m]
  BY DEF print_uint
<1>2. Is(text0)
  <2>1. PICK g : Prints(g, m)
    BY PrintsExists
  <2>2. g = [n \in 0..m |-> g[n]]
    BY <2>1 DEF Prints
  <2>3. Is(g)
    BY <2>1, <2>2 DEF Prints
  <2> HIDE DEF Is
  <2> QED
    BY <2>3, Zenon
<1>3. PICK f : f = text0
  OBVIOUS
<1> HIDE DEF text0
<1>4. \A n \in 0..m : f[n] = IF n < 10 THEN <<ZERO + n>>
                             ELSE Append(f[n \div 10], ZERO + (n % 10))
  BY <1>2, <1>3
<1> HIDE DEF Is
<1> DEFINE Right(n) == f[n] \in Seq(Digits) /\ Len(f[n]) \in Nat \ {0} /\ Denotes(f[n]) = n
           Wrong == {n \in 0..m : ~Right(n)}
<1>5. ASSUME NEW n \in 0..m, \A k \in 0..n - 1 : Right(k)
      PROVE  Right(n)
  <2> HIDE DEF Right
  <2>1. n \in Nat
    OBVIOUS
  <2>2. CASE n < 10
    <3>1. ZERO + n \in Digits /\ f[n] = <<ZERO + n>>
      BY <1>4, <2>1, <2>2, LastDigit
    <3>2. PICK c : c = ZERO + n
      OBVIOUS
    <3>3. c \in Digits /\ f[n] = <<c>> /\ c - ZERO = n
      BY <2>1, <3>1, <3>2 DEF ZERO
    <3>4. f[n] \in Seq(Digits) /\ Len(f[n]) = 1 /\ Denotes(f[n]) = c - ZERO
      BY <3>3, OneDigit
    <3> QED
      BY <3>3, <3>4 DEF Right
  <2>3. CASE ~(n < 10)
    <3>1. PICK q, r : q = n \div 10 /\ r = n % 10
      OBVIOUS
    <3>2. /\ q \in 0..n - 1 /\ r \in 0..9 /\ ZERO + r \in Digits
          /\ n = 10 * q + r
      <4>1. n >= 10
        BY <2>1, <2>3
      <4> QED
        BY <2>1, <4>1, <3>1, LastDigit
    <3>3. f[n] = Append(f[q], ZERO + r)
      BY <1>4, <2>3, <3>1
    <3>4. f[q] \in Seq(Digits) /\ Len(f[q]) \in Nat \ {0} /\ Denotes(f[q]) = q
      <4>1. Right(q)
        BY <1>5, <3>2
      <4> QED
        BY <4>1 DEF Right
    <3>5. PICK p, c : p = f[q] /\ c = ZERO + r
      OBVIOUS
    <3>6. /\ p \in Seq(Digits) /\ c \in Digits /\ f[n] = Append(p, c)
          /\ (c - ZERO) + 10 * q = n
      BY <2>1, <3>2, <3>3, <3>4, <3>5 DEF ZERO
    <3>7. /\ f[n] \in Seq(Digits) /\ Len(f[n]) = Len(p) + 1
          /\ Denotes(f[n]) = (c - ZERO) + 10 * Denotes(p)
      BY <3>6, OneMoreDigit
    <3>8. Len(f[n]) \in Nat \ {0}
      BY <3>4, <3>5, <3>7
    <3> QED
      BY <3>4, <3>5, <3>6, <3>7, <3>8 DEF Right
  <2> QED
    BY <2>2, <2>3
<1> HIDE DEF Right
<1>6. Wrong = {}
  <2> SUFFICES ASSUME Wrong # {} PROVE FALSE
    OBVIOUS
  <2>1. Wrong \in SUBSET Nat
    OBVIOUS
  <2>2. PICK n \in Wrong : \A k \in Wrong : n <= k
    BY <2>1, LeastElement
  <2>3. n \in 0..m /\ \A k \in 0..n - 1 : k \in 0..m /\ ~(n <= k)
    OBVIOUS
  <2>4. \A k \in 0..n - 1 : Right(k)
    BY <2>2, <2>3
  <2> QED
    BY <1>5, <2>2, <2>3, <2>4
<1>7. Right(m)
  <2>1. m \in 0..m
    OBVIOUS
  <2> QED
    BY <1>6, <2>1
<1> QED
  BY <1>1, <1>3, <1>7 DEF Right

LEMMA UintBack ==
  ASSUME NEW number \in 0..register - 1
  PROVE  /\ print_uint(number) \in Seq(Digits) /\ Len(print_uint(number)) \in Nat \ {0}
         /\ parse_uint(print_uint(number)) = Result(number, Len(print_uint(number)))
<1>1. register \in Nat \ {0}
  BY RegisterIs
<1>2. number \in Nat
  BY <1>1
<1>3. PICK p : p = print_uint(number)
  OBVIOUS
<1>4. p \in Seq(Digits) /\ Len(p) \in Nat \ {0} /\ Denotes(p) = number
  BY <1>2, <1>3, PrintIs
<1>5. p \in String /\ digits_of(p) = p
  BY <1>4, DigitsAll
<1>6. parse_uint(p) = Result(number % register, Len(p))
  BY <1>4, <1>5, Parsed
<1>7. number % register = number
  BY <1>1, ModSmall
<1> QED
  BY <1>3, <1>4, <1>6, <1>7

LEMMA NegIs ==
  ASSUME NEW number \in 1..register - 1
  PROVE  neg(number) = register - number /\ register - number \in 1..register - 1
<1>1. register \in Nat \ {0}
  BY RegisterIs
<1>2. PICK r : r = register
  OBVIOUS
<1>3. r \in Nat \ {0} /\ number \in 1..r - 1
  BY <1>1, <1>2
<1>4. r - number \in 1..r - 1 /\ r - number \in 0..r - 1
  BY <1>3
<1>5. (r - number) % r = r - number
  BY <1>3, <1>4, ModSmall
<1> QED
  BY <1>2, <1>4, <1>5 DEF neg

(* A number that fits in a register is read as it is printed.              *)
LEMMA Back ==
  ASSUME NEW number \in 0..register - 1
  PROVE  RoundTrip(number)
<1>1. PICK q : q = print_int(number)
  OBVIOUS
<1>2. register \in Nat \ {0}
  BY RegisterIs
<1>3. CASE ~negative(number)
  <2>1. /\ q \in Seq(Digits) /\ Len(q) \in Nat \ {0}
        /\ parse_uint(q) = Result(number, Len(q))
    BY <1>1, <1>3, UintBack DEF print_int
  <2>2. ~signed(q)
    <3>1. 1 \in 1..Len(q)
      BY <2>1
    <3>2. q[1] \in Digits
      BY <2>1, <3>1, ElementOfSeq
    <3>3. byte(q, 1) = q[1]
      BY <2>1 DEF byte
    <3> QED
      BY <3>2, <3>3 DEF signed, Digits, ZERO, PLUS, MINUS
  <2>3. io_parse_int(q) = Result(number, Len(q)) /\ dict_parse_int(q) = Result(number, Len(q))
    BY <2>1, <2>2 DEF io_parse_int, dict_parse_int
  <2> QED
    BY <1>1, <2>3, UintBack DEF RoundTrip
<1>4. CASE negative(number)
  <2>1. number \in 1..register - 1
    <3>1. 2 * number >= register
      BY <1>4 DEF negative
    <3> QED
      BY <1>2, <3>1
  <2>2. PICK p : p = print_uint(neg(number))
    OBVIOUS
  <2>3. neg(number) \in 1..register - 1 /\ neg(neg(number)) = number
    <3>1. neg(number) = register - number /\ register - number \in 1..register - 1
      BY <2>1, NegIs
    <3>2. neg(register - number) = register - (register - number)
      BY <3>1, NegIs
    <3>3. register - (register - number) = number
      BY <1>2, <2>1
    <3> QED
      BY <3>1, <3>2, <3>3
  <2>4. /\ p \in Seq(Digits) /\ Len(p) \in Nat \ {0}
        /\ parse_uint(p) = Result(neg(number), Len(p))
    <3>1. neg(number) \in 0..register - 1
      BY <1>2, <2>3
    <3> QED
      BY <2>2, <3>1, UintBack
  <2>5. q = <<MINUS>> \o p
    BY <1>1, <1>4, <2>2 DEF print_int
  <2>6. q \in Seq(Int) /\ q # << >> /\ Len(q) = Len(p) + 1 /\ q[1] = MINUS /\ Tail(q) = p
    <3>1. <<MINUS>> \in Seq(Int) /\ Len(<<MINUS>>) = 1 /\ <<MINUS>>[1] = MINUS
      BY DEF MINUS
    <3>2. p \in Seq(Int)
      BY <2>4 DEF Digits, ZERO
    <3>3. /\ q \in Seq(Int) /\ Len(q) = 1 + Len(p)
          /\ \A i \in 1..1 + Len(p) : q[i] = IF i <= 1 THEN <<MINUS>>[i] ELSE p[i - 1]
      BY <2>5, <3>1, <3>2, ConcatProperties
    <3>4. q # << >> /\ Len(q) = Len(p) + 1
      BY <2>4, <3>3
    <3>5. q[1] = MINUS
      <4>1. 1 \in 1..1 + Len(p) /\ 1 <= 1
        BY <2>4
      <4> QED
        BY <3>1, <3>3, <4>1
    <3>6. /\ Tail(q) \in Seq(Int) /\ Len(Tail(q)) = Len(q) - 1
          /\ \A i \in 1..Len(Tail(q)) : Tail(q)[i] = q[i + 1]
      BY <3>3, <3>4, HeadTailProperties
    <3>7. Len(Tail(q)) = Len(p) /\ \A i \in 1..Len(p) : Tail(q)[i] = p[i]
      <4>1. Len(Tail(q)) = Len(p)
        BY <2>4, <3>4, <3>6
      <4>2. ASSUME NEW i \in 1..Len(p)
            PROVE  Tail(q)[i] = p[i]
        <5>1. i + 1 \in 1..1 + Len(p) /\ ~(i + 1 <= 1) /\ i + 1 - 1 = i
          BY <2>4
        <5> QED
          BY <3>3, <3>6, <4>1, <5>1
      <4> QED
        BY <4>1, <4>2
    <3>8. Tail(q) = p
      BY <3>2, <3>6, <3>7, SeqEqual
    <3> QED
      BY <3>3, <3>4, <3>5, <3>8
  <2>7. signed(q)
    <3>1. 1 <= Len(q)
      BY <2>4, <2>6
    <3> QED
      BY <2>6, <3>1 DEF signed, byte
  <2>8. after_sign(q) = Result(number, Len(p))
    <3>1. after_sign(q) = IF q[1] = MINUS THEN Result(neg(parse_uint(p).rax), parse_uint(p).rdx)
                          ELSE parse_uint(p)
      BY <2>6 DEF after_sign
    <3>2. parse_uint(p).rax = neg(number) /\ parse_uint(p).rdx = Len(p)
      BY <2>4 DEF Result
    <3> QED
      BY <2>3, <2>6, <3>1, <3>2
  <2>9. after_sign(q).rax = number /\ after_sign(q).rdx = Len(p) /\ Len(p) # 0
    BY <2>4, <2>8 DEF Result
  <2>10. io_parse_int(q) = Result(number, Len(q)) /\ dict_parse_int(q) = Result(number, Len(q))
    BY <2>6, <2>7, <2>9 DEF io_parse_int, dict_parse_int
  <2> QED
    BY <1>1, <2>10, UintBack DEF RoundTrip
<1> QED
  BY <1>3, <1>4

(* Numbers are read as they are written, whatever the width of a register. *)
THEOREM Read == AsmSpec => []NumbersRead
<1>1. IoInv => NumbersRead
  <2> SUFFICES ASSUME IoInv PROVE NumbersRead
    OBVIOUS
  <2>1. ParsesRun(text)
    BY RunParsed DEF IoInv, IoTypes, text, String
  <2>2. \A number \in 0..register - 1 : RoundTrip(number)
    BY Back
  <2> QED
    BY <2>1, <2>2 DEF NumbersRead
<1> QED
  BY <1>1, Invariance, PTL
=============================================================================
