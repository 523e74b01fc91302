--------------------------- MODULE FastbinInvariant ---------------------------
(***************************************************************************)
(* Why the fastbin is safe: the inductive invariant of FastbinRace.        *)
(***************************************************************************)
EXTENDS FastbinRace

Linked  == {c \in CHUNKS : rank[c] > 0}
OnBin   == Linked \ detached

(* A linked chunk belongs to nobody, and no two to one place of a list.    *)
LinkedApart ==
  /\ detached \subseteq Linked
  /\ binned \cap Linked = {}
  /\ \A t \in THREADS : Mine(t) \cap Linked = {}

Together(c, d) == c \in detached <=> d \in detached

LinkedOnce ==
  \A c, d \in Linked : Together(c, d) /\ rank[c] = rank[d] => c = d

(* A link leads to the chunk one place further on in the same list, and    *)
(* the last one has none.                                                  *)
LinkRight(c) ==
  IF rank[c] = 1 THEN fd[c] = NULL
  ELSE fd[c] \in Linked /\ rank[fd[c]] = rank[c] - 1 /\ Together(c, fd[c])

LinksRight == \A c \in Linked : LinkRight(c)

(* first leads to all of the chunks.                                       *)
IsFirst(first, chunks) == first \in chunks /\ \A c \in chunks : rank[c] <= rank[first]

HeadRight == IF fb = NULL THEN OnBin = {} ELSE IsFirst(fb, OnBin)

CursorRight ==
  /\ \A t \in THREADS : pc[t] = "tear" => IsFirst(victim[t], detached)
  /\ (\A t \in THREADS : pc[t] # "tear") => detached = {}

(* Who takes chunks off the bin has the lock.                              *)
LockRight == \A t \in THREADS : pc[t] \in LockLabels <=> mutex = t

(* The victim stays on the bin while its thread has the lock, with the     *)
(* link that was read: what frees push goes in front of it.                *)
VictimRight ==
  \A t \in THREADS :
    /\ pc[t] \in {"fd", "cas"} => victim[t] \in OnBin
    /\ pc[t] = "cas" => next[t] = fd[victim[t]]

FreeRight ==
  \A t \in THREADS :
    /\ pc[t] \in {"free", "link", "push"} <=> p[t] # NULL
    /\ pc[t] \in {"link", "push"} => old[t] # p[t]
    /\ pc[t] = "push" => fd[p[t]] = old[t]

(* All of it: inductive, and it holds what the code's check and its        *)
(* callers rely on.                                                        *)
IInv ==
  /\ TypeOK /\ OwnedOnce
  /\ LinkedApart /\ LinkedOnce /\ LinksRight
  /\ HeadRight /\ CursorRight
  /\ LockRight /\ VictimRight /\ FreeRight

(* Every chunk is somewhere: inductive beside IInv.                        *)
Accounted ==
  \A c \in CHUNKS : \/ c \in Linked \cup binned
                   \/ \E t \in THREADS : c \in Mine(t)
=============================================================================
