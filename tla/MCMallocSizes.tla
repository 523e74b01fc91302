---------------------------- MODULE MCMallocSizes ----------------------------
(* The sizes of malloc-impl.c with the constants of each of its three      *)
(* builds, over requests and chunk sizes up to beyond the last bin's       *)
(* first: TLC evaluates the assumptions.                                   *)
EXTENDS Integers, Sequences

Row(w, u, b) == [width |-> w, upto |-> u, base |-> b]

Wide == <<Row(512, 20, 91), Row(4096, 10, 110), Row(32768, 4, 119), Row(262144, 2, 124)>>

Abi64 == INSTANCE MallocSizes WITH SIZE_SZ <- 8, MALLOC_ALIGNMENT <- 16,
           NSMALLBINS <- 64, LASTBIN <- 126, LARGEBINS <- <<Row(64, 48, 48)>> \o Wide
Abi32 == INSTANCE MallocSizes WITH SIZE_SZ <- 4, MALLOC_ALIGNMENT <- 8,
           NSMALLBINS <- 64, LASTBIN <- 126, LARGEBINS <- <<Row(64, 38, 56)>> \o Wide
Abi32Big == INSTANCE MallocSizes WITH SIZE_SZ <- 4, MALLOC_ALIGNMENT <- 16,
           NSMALLBINS <- 64, LASTBIN <- 126, LARGEBINS <- <<Row(64, 45, 49)>> \o Wide

(* Every small request, and those about each multiple of 512, the width of *)
(* the second range of large bins, up to beyond the last bin's first.      *)
SampleRequests == 1..1100 \cup {512 * k + 8 * d : k \in 3..1100, d \in -3..3}

ASSUME Ranges == Abi64!RangesJoin /\ Abi32!RangesJoin /\ Abi32Big!RangesJoin

ASSUME Sizes64 ==
  \A n \in SampleRequests :
    /\ Abi64!RequestFits(n) /\ Abi64!PaddedOnce(n) /\ Abi64!TcacheIndexes(n)
    /\ Abi64!BinsOrdered(Abi64!request2size(n)) /\ Abi64!FastIndexes(Abi64!request2size(n))

ASSUME Sizes32 ==
  \A n \in SampleRequests :
    /\ Abi32!RequestFits(n) /\ Abi32!PaddedOnce(n) /\ Abi32!TcacheIndexes(n)
    /\ Abi32!BinsOrdered(Abi32!request2size(n)) /\ Abi32!FastIndexes(Abi32!request2size(n))

ASSUME Sizes32Big ==
  \A n \in SampleRequests :
    /\ Abi32Big!RequestFits(n) /\ Abi32Big!PaddedOnce(n) /\ Abi32Big!TcacheIndexes(n)
    /\ Abi32Big!BinsOrdered(Abi32Big!request2size(n))
    /\ Abi32Big!FastIndexes(Abi32Big!request2size(n))
=============================================================================
