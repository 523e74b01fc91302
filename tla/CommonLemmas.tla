----------------------------- MODULE CommonLemmas -----------------------------
(***************************************************************************)
(* Induction and indices, for the other proofs.  The induction theorems of *)
(* the library are about operators; those here are about sets, and follow  *)
(* from its theorem that a well-founded relation has minimal elements.     *)
(***************************************************************************)
EXTENDS Integers, FiniteSets, FiniteSetTheorems, WellFoundedInduction, TLAPS

(* A set of naturals has a least element.                                  *)
LEMMA LeastElement ==
  ASSUME NEW S \in SUBSET Nat, S # {}
  PROVE  \E n \in S : \A m \in S : n <= m
<1> DEFINE R == OpToRel(<, Nat)
<1>1. IsWellFoundedOn(R, Nat)
  BY NatLessThanWellFounded, Zenon
<1> HIDE DEF R
<1>2. PICK n \in S : \A m \in S : <<m, n>> \notin R
  BY <1>1, WFMin
<1>3. \A m \in S : ~(m < n)
  BY <1>2 DEF R, OpToRel
<1> QED
  BY <1>3

(* A set that holds 0 and the successor of each natural it holds, holds    *)
(* every natural.                                                          *)
LEMMA EveryNatural ==
  ASSUME NEW S, 0 \in S, \A n \in Nat : n \in S => n + 1 \in S
  PROVE  Nat \subseteq S
<1> SUFFICES ASSUME Nat \ S # {} PROVE FALSE
  OBVIOUS
<1>1. PICK n \in Nat \ S : \A m \in Nat \ S : n <= m
  BY LeastElement
<1>2. n # 0 /\ n - 1 \in Nat /\ n - 1 \in S
  BY <1>1
<1> QED
  BY <1>1, <1>2

(* A finite set holds no more of the values of an injective function than  *)
(* it has elements.                                                        *)
LEMMA ManyValues ==
  ASSUME NEW S, IsFiniteSet(S), NEW n \in Nat, NEW f \in [0 .. n -> S],
         \A i, j \in 0 .. n : f[i] = f[j] => i = j
  PROVE  n < Cardinality(S)
<1>1. f \in Injection(0 .. n, S)
  BY DEF Injection, IsInjective
<1>2. Cardinality(0 .. n) <= Cardinality(S) /\ Cardinality(S) \in Nat
  BY <1>1, FS_Injection, FS_CardinalityType
<1>3. Cardinality(0 .. n) = n + 1
  BY FS_Interval
<1> QED
  BY <1>2, <1>3

-----------------------------------------------------------------------------
(* Rows and columns: the index of a place in a picture of width w          *)

(* The index of a place is one of the block's cells.                       *)
LEMMA CellIndex ==
  ASSUME NEW w \in Nat, NEW h \in Nat, NEW r \in 0 .. h - 1, NEW c \in 0 .. w - 1
  PROVE  r * w + c \in 0 .. w * h - 1
<1>1. r + 1 <= h /\ r \in Nat /\ c \in Nat /\ c + 1 <= w
  OBVIOUS
<1>2. (r + 1) * w <= h * w
  BY <1>1
<1>3. (r + 1) * w = r * w + w /\ h * w = w * h /\ r * w \in Nat
  BY <1>1
<1> QED
  BY <1>1, <1>2, <1>3

(* No two places have one index.                                           *)
LEMMA CellOnce ==
  ASSUME NEW w \in Nat, NEW r \in Nat, NEW s \in Nat,
         NEW c \in 0 .. w - 1, NEW d \in 0 .. w - 1, r * w + c = s * w + d
  PROVE  r = s /\ c = d
<1>1. ~(r < s)
  <2> SUFFICES ASSUME r + 1 <= s PROVE FALSE
    OBVIOUS
  <2>1. (r + 1) * w <= s * w
    OBVIOUS
  <2>2. (r + 1) * w = r * w + w /\ r * w \in Nat /\ s * w \in Nat
    OBVIOUS
  <2> QED
    BY <2>1, <2>2
<1>2. ~(s < r)
  <2> SUFFICES ASSUME s + 1 <= r PROVE FALSE
    OBVIOUS
  <2>1. (s + 1) * w <= r * w
    OBVIOUS
  <2>2. (s + 1) * w = s * w + w /\ r * w \in Nat /\ s * w \in Nat
    OBVIOUS
  <2> QED
    BY <2>1, <2>2
<1>3. r = s
  BY <1>1, <1>2
<1>4. r * w = s * w /\ r * w \in Nat
  BY <1>3
<1> QED
  BY <1>3, <1>4

(* The row and the column of an index.                                     *)
LEMMA RowAndColumn ==
  ASSUME NEW w \in Nat, NEW r \in Nat, NEW c \in 0 .. w - 1
  PROVE  (r * w + c) \div w = r /\ (r * w + c) % w = c
<1> DEFINE i == r * w + c
<1>1. i \in Nat /\ w \in Nat \ {0}
  OBVIOUS
<1> HIDE DEF i
<1>2. i % w \in 0 .. w - 1
  BY <1>1
<1>3. i \div w \in Nat /\ i = w * (i \div w) + (i % w)
  BY <1>1
<1>4. i = (i \div w) * w + (i % w)
  BY <1>1, <1>3
<1>5. i = r * w + c
  BY DEF i
<1>6. i \div w = r /\ i % w = c
  BY <1>2, <1>3, <1>4, <1>5, CellOnce
<1> QED
  BY <1>6 DEF i
=============================================================================
