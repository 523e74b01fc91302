---------------------------- MODULE FastbinProofs ----------------------------
(***************************************************************************)
(* The fastbin never gives a chunk out twice and loses none, for any       *)
(* threads, any finite set of chunks and any size of the thread caches.    *)
(***************************************************************************)
EXTENDS FastbinInvariant, CommonLemmas

(* The invariant holds of an empty bin.                                    *)
THEOREM InitIInv == Init => IInv
<1> SUFFICES ASSUME Init PROVE IInv
  OBVIOUS
<1> USE NullAssumption DEF Init
<1>1. TypeOK
  BY DEF TypeOK, Links, Labels
<1>2. OwnedOnce
  BY DEF OwnedOnce, Mine
<1>3. Linked = {}
  BY DEF Linked
<1>4. LinkedApart /\ LinkedOnce /\ LinksRight
  BY <1>3 DEF LinkedApart, LinkedOnce, LinksRight
<1>5. HeadRight /\ CursorRight
  BY <1>3 DEF HeadRight, CursorRight, OnBin
<1>6. LockRight /\ VictimRight /\ FreeRight
  BY DEF LockRight, LockLabels, VictimRight, FreeRight
<1> QED
  BY <1>1, <1>2, <1>4, <1>5, <1>6 DEF IInv

-----------------------------------------------------------------------------
(* Actions that leave the bin and the owners of the chunks alone           *)

(* What leaves the bin and the owners alone keeps what IInv says of them.  *)
LEMMA Frame ==
  ASSUME IInv, UNCHANGED <<fb, fd, rank, detached, held, tcache, binned, p>>
  PROVE  OwnedOnce' /\ LinkedApart' /\ LinkedOnce' /\ LinksRight' /\ HeadRight'
<1> USE DEF IInv
<1>1. Linked' = Linked /\ OnBin' = OnBin
  BY DEF Linked, OnBin
<1>2. OwnedOnce'
  BY DEF OwnedOnce, Mine
<1>3. LinkedApart' /\ LinkedOnce'
  BY <1>1 DEF LinkedApart, LinkedOnce, Mine, Together
<1>4. LinksRight'
  BY <1>1 DEF LinksRight, LinkRight, Together
<1>5. HeadRight'
  BY <1>1 DEF HeadRight, IsFirst
<1> QED
  BY <1>2, <1>3, <1>4, <1>5

(* A thread that has the lock, and another.                                *)
LEMMA OneHolder ==
  ASSUME IInv, NEW t \in THREADS, NEW u \in THREADS, u # t,
         pc[t] \in LockLabels
  PROVE  pc[u] \notin LockLabels
  BY DEF IInv, LockRight

(* Taking the lock keeps the invariant: nobody else had it.                *)
LEMMA MallocLocksInv == ASSUME IInv, NEW t \in THREADS, MallocLocks(t) PROVE IInv'
<1> USE NullAssumption DEF IInv, MallocLocks, unlocked, Goes, Unlock, NoneLeft, shared, owned, history
<1>1. TypeOK'
  BY DEF TypeOK, Links, Labels
<1>2. OwnedOnce' /\ LinkedApart' /\ LinkedOnce' /\ LinksRight' /\ HeadRight'
  BY Frame
<1>3. CursorRight'
  BY DEF TypeOK, CursorRight, IsFirst
<1>4. LockRight'
  BY DEF TypeOK, LockRight, LockLabels
<1>5. VictimRight'
  BY DEF TypeOK, VictimRight, OnBin, Linked, HeadRight, IsFirst
<1>6. FreeRight'
  BY DEF TypeOK, FreeRight, HeadRight, IsFirst, OnBin, Linked, LinkedApart, Mine, Links
<1> QED
  BY <1>1, <1>2, <1>3, <1>4, <1>5, <1>6

(* Reading *fb keeps the invariant: the chunk it names is on the bin.      *)
LEMMA ReadFbInv == ASSUME IInv, NEW t \in THREADS, ReadFb(t) PROVE IInv'
<1> USE NullAssumption DEF IInv, ReadFb, Goes, Unlock, NoneLeft, shared, owned, history
<1>1. TypeOK'
  BY DEF TypeOK, Links, Labels
<1>2. OwnedOnce' /\ LinkedApart' /\ LinkedOnce' /\ LinksRight' /\ HeadRight'
  BY Frame
<1>3. CursorRight'
  BY DEF TypeOK, CursorRight, IsFirst
<1>4. LockRight'
  BY DEF TypeOK, LockRight, LockLabels
<1>5. VictimRight'
  BY DEF TypeOK, VictimRight, OnBin, Linked, HeadRight, IsFirst
<1>6. FreeRight'
  BY DEF TypeOK, FreeRight, HeadRight, IsFirst, OnBin, Linked, LinkedApart, Mine, Links
<1> QED
  BY <1>1, <1>2, <1>3, <1>4, <1>5, <1>6

(* Reading the link of the victim, which is still on the bin, keeps it.    *)
LEMMA ReadFdInv == ASSUME IInv, NEW t \in THREADS, ReadFd(t) PROVE IInv'
<1> USE NullAssumption DEF IInv, ReadFd, Goes, Unlock, NoneLeft, shared, owned, history
<1>1. TypeOK'
  BY DEF TypeOK, Links, Labels, VictimRight, OnBin, Linked
<1>2. OwnedOnce' /\ LinkedApart' /\ LinkedOnce' /\ LinksRight' /\ HeadRight'
  BY Frame
<1>3. CursorRight'
  BY DEF TypeOK, CursorRight, IsFirst
<1>4. LockRight'
  BY DEF TypeOK, LockRight, LockLabels
<1>5. VictimRight'
  BY DEF TypeOK, VictimRight, OnBin, Linked, HeadRight, IsFirst
<1>6. FreeRight'
  BY DEF TypeOK, FreeRight, HeadRight, IsFirst, OnBin, Linked, LinkedApart, Mine, Links
<1> QED
  BY <1>1, <1>2, <1>3, <1>4, <1>5, <1>6

(* A failed removal keeps it: what was found is on the bin instead.        *)
LEMMA RemoveAgainInv == ASSUME IInv, NEW t \in THREADS, RemoveAgain(t) PROVE IInv'
<1> USE NullAssumption DEF IInv, RemoveAgain, found, Goes, Unlock, NoneLeft, shared, owned, history
<1>1. TypeOK'
  BY DEF TypeOK, Links, Labels
<1>2. OwnedOnce' /\ LinkedApart' /\ LinkedOnce' /\ LinksRight' /\ HeadRight'
  BY Frame
<1>3. CursorRight'
  BY DEF TypeOK, CursorRight, IsFirst
<1>4. LockRight'
  BY DEF TypeOK, LockRight, LockLabels
<1>5. VictimRight'
  BY DEF TypeOK, VictimRight, OnBin, Linked, HeadRight, IsFirst
<1>6. FreeRight'
  BY DEF TypeOK, FreeRight, HeadRight, IsFirst, OnBin, Linked, LinkedApart, Mine, Links
<1> QED
  BY <1>1, <1>2, <1>3, <1>4, <1>5, <1>6

(* Giving up, or going to consolidate, with the lock held keeps it.        *)
LEMMA NoneBinnedInv == ASSUME IInv, NEW t \in THREADS, NoneBinned(t) PROVE IInv'
<1> USE NullAssumption DEF IInv, NoneBinned, Goes, Unlock, NoneLeft, shared, owned, history
<1>1. TypeOK'
  BY DEF TypeOK, Links, Labels
<1>2. OwnedOnce' /\ LinkedApart' /\ LinkedOnce' /\ LinksRight' /\ HeadRight'
  BY Frame
<1>3. CursorRight'
  BY DEF TypeOK, CursorRight, IsFirst
<1>4. LockRight'
  BY DEF TypeOK, LockRight, LockLabels
<1>5. VictimRight'
  BY DEF TypeOK, VictimRight, OnBin, Linked, HeadRight, IsFirst
<1>6. FreeRight'
  BY DEF TypeOK, FreeRight, HeadRight, IsFirst, OnBin, Linked, LinkedApart, Mine, Links
<1> QED
  BY <1>1, <1>2, <1>3, <1>4, <1>5, <1>6

(* Reading *fb without the lock keeps it: a chunk to free is not linked.   *)
LEMMA FreeReadsInv == ASSUME IInv, NEW t \in THREADS, FreeReads(t) PROVE IInv'
<1> USE NullAssumption DEF IInv, FreeReads, Goes, Unlock, NoneLeft, shared, owned, history
<1>1. TypeOK'
  BY DEF TypeOK, Links, Labels
<1>2. OwnedOnce' /\ LinkedApart' /\ LinkedOnce' /\ LinksRight' /\ HeadRight'
  BY Frame
<1>3. CursorRight'
  BY DEF TypeOK, CursorRight, IsFirst
<1>4. LockRight'
  BY DEF TypeOK, LockRight, LockLabels
<1>5. VictimRight'
  BY DEF TypeOK, VictimRight, OnBin, Linked, HeadRight, IsFirst
<1>6. FreeRight'
  BY DEF TypeOK, FreeRight, HeadRight, IsFirst, OnBin, Linked, LinkedApart, Mine, Links
<1> QED
  BY <1>1, <1>2, <1>3, <1>4, <1>5, <1>6

(* A failed push keeps it: the link is set again before the next try.      *)
LEMMA FreeAgainInv == ASSUME IInv, NEW t \in THREADS, FreeAgain(t) PROVE IInv'
<1> USE NullAssumption DEF IInv, FreeAgain, retry, Goes, Unlock, NoneLeft, shared, owned, history
<1>1. TypeOK'
  BY DEF TypeOK, Links, Labels
<1>2. OwnedOnce' /\ LinkedApart' /\ LinkedOnce' /\ LinksRight' /\ HeadRight'
  BY Frame
<1>3. CursorRight'
  BY DEF TypeOK, CursorRight, IsFirst
<1>4. LockRight'
  BY DEF TypeOK, LockRight, LockLabels
<1>5. VictimRight'
  BY DEF TypeOK, VictimRight, OnBin, Linked, HeadRight, IsFirst
<1>6. FreeRight'
  BY DEF TypeOK, FreeRight, HeadRight, IsFirst, OnBin, Linked, LinkedApart, Mine, Links
<1> QED
  BY <1>1, <1>2, <1>3, <1>4, <1>5, <1>6

(* The free of a large chunk takes the lock and keeps the invariant.       *)
LEMMA FreeLargeInv == ASSUME IInv, NEW t \in THREADS, FreeLarge(t) PROVE IInv'
<1> USE NullAssumption DEF IInv, FreeLarge, Goes, Unlock, NoneLeft, shared, owned, history
<1>1. TypeOK'
  BY DEF TypeOK, Links, Labels
<1>2. OwnedOnce' /\ LinkedApart' /\ LinkedOnce' /\ LinksRight' /\ HeadRight'
  BY Frame
<1>3. CursorRight'
  BY DEF TypeOK, CursorRight, IsFirst
<1>4. LockRight'
  BY DEF TypeOK, LockRight, LockLabels
<1>5. VictimRight'
  BY DEF TypeOK, VictimRight, OnBin, Linked, HeadRight, IsFirst
<1>6. FreeRight'
  BY DEF TypeOK, FreeRight, HeadRight, IsFirst, OnBin, Linked, LinkedApart, Mine, Links
<1> QED
  BY <1>1, <1>2, <1>3, <1>4, <1>5, <1>6

(* Clearing have_fastchunks keeps the invariant, which is not about it.    *)
LEMMA ConsolidateInv == ASSUME IInv, NEW t \in THREADS, Consolidate(t) PROVE IInv'
<1> USE NullAssumption DEF IInv, Consolidate, Goes, Unlock, NoneLeft, shared, owned, history
<1>1. TypeOK'
  BY DEF TypeOK, Links, Labels
<1>2. OwnedOnce' /\ LinkedApart' /\ LinkedOnce' /\ LinksRight' /\ HeadRight'
  BY Frame
<1>3. CursorRight'
  BY DEF TypeOK, CursorRight, IsFirst
<1>4. LockRight'
  BY DEF TypeOK, LockRight, LockLabels
<1>5. VictimRight'
  BY DEF TypeOK, VictimRight, OnBin, Linked, HeadRight, IsFirst
<1>6. FreeRight'
  BY DEF TypeOK, FreeRight, HeadRight, IsFirst, OnBin, Linked, LinkedApart, Mine, Links
<1> QED
  BY <1>1, <1>2, <1>3, <1>4, <1>5, <1>6

-----------------------------------------------------------------------------
(* Actions that move a chunk between owners                                *)

(* A chunk from the thread cache changes hands within one thread.          *)
LEMMA MallocCachedInv == ASSUME IInv, NEW t \in THREADS, MallocCached(t) PROVE IInv'
<1> USE NullAssumption DEF IInv, MallocCached, Goes, Unlock, shared, locals, owned, history
<1>1. TypeOK'
  BY DEF TypeOK, Links, Labels
<1>2. Linked' = Linked /\ OnBin' = OnBin
  BY DEF Linked, OnBin
<1>3. OwnedOnce'
  BY DEF TypeOK, OwnedOnce, Mine, FreeRight
<1>4. LinkedApart'
  BY <1>2 DEF TypeOK, LinkedApart, Mine, FreeRight
<1>5. LinkedOnce' /\ LinksRight'
  BY <1>2 DEF LinkedOnce, LinksRight, LinkRight, Together
<1>6. HeadRight' /\ CursorRight'
  BY <1>2 DEF TypeOK, HeadRight, CursorRight, IsFirst
<1>7. LockRight'
  BY DEF TypeOK, LockRight, LockLabels
<1>8. VictimRight'
  BY <1>2 DEF TypeOK, VictimRight
<1>9. FreeRight'
  BY DEF TypeOK, FreeRight, Links
<1> QED
  BY <1>1, <1>3, <1>4, <1>5, <1>6, <1>7, <1>8, <1>9

(* A chunk freed to the thread cache changes hands within one thread.      *)
LEMMA FreeCachedInv == ASSUME IInv, NEW t \in THREADS, FreeCached(t) PROVE IInv'
<1> USE NullAssumption DEF IInv, FreeCached, Goes, Unlock, shared, locals, owned, history
<1>1. TypeOK'
  BY DEF TypeOK, Links, Labels
<1>2. Linked' = Linked /\ OnBin' = OnBin
  BY DEF Linked, OnBin
<1>3. OwnedOnce'
  BY DEF TypeOK, OwnedOnce, Mine, FreeRight
<1>4. LinkedApart'
  BY <1>2 DEF TypeOK, LinkedApart, Mine, FreeRight
<1>5. LinkedOnce' /\ LinksRight'
  BY <1>2 DEF LinkedOnce, LinksRight, LinkRight, Together
<1>6. HeadRight' /\ CursorRight'
  BY <1>2 DEF TypeOK, HeadRight, CursorRight, IsFirst
<1>7. LockRight'
  BY DEF TypeOK, LockRight, LockLabels
<1>8. VictimRight'
  BY <1>2 DEF TypeOK, VictimRight
<1>9. FreeRight'
  BY DEF TypeOK, FreeRight, Links
<1> QED
  BY <1>1, <1>3, <1>4, <1>5, <1>6, <1>7, <1>8, <1>9

(* A chunk that is being freed still belongs to its thread alone.          *)
LEMMA FreeFastInv == ASSUME IInv, NEW t \in THREADS, FreeFast(t) PROVE IInv'
<1> USE NullAssumption DEF IInv, FreeFast, Goes, Unlock, shared, locals, owned, history
<1>1. TypeOK'
  BY DEF TypeOK, Links, Labels
<1>2. Linked' = Linked /\ OnBin' = OnBin
  BY DEF Linked, OnBin
<1>3. OwnedOnce'
  BY DEF TypeOK, OwnedOnce, Mine, FreeRight
<1>4. LinkedApart'
  BY <1>2 DEF TypeOK, LinkedApart, Mine, FreeRight
<1>5. LinkedOnce' /\ LinksRight'
  BY <1>2 DEF LinkedOnce, LinksRight, LinkRight, Together
<1>6. HeadRight' /\ CursorRight'
  BY <1>2 DEF TypeOK, HeadRight, CursorRight, IsFirst
<1>7. LockRight'
  BY DEF TypeOK, LockRight, LockLabels
<1>8. VictimRight'
  BY <1>2 DEF TypeOK, VictimRight
<1>9. FreeRight'
  BY DEF TypeOK, FreeRight, Links
<1> QED
  BY <1>1, <1>3, <1>4, <1>5, <1>6, <1>7, <1>8, <1>9

(* A chunk of another bin is given to one thread, and linked nowhere.      *)
LEMMA TakeBinnedInv == ASSUME IInv, NEW t \in THREADS, TakeBinned(t) PROVE IInv'
<1> USE NullAssumption DEF IInv, TakeBinned, Goes, Unlock, shared, locals, owned, history
<1>1. TypeOK'
  BY DEF TypeOK, Links, Labels
<1>2. Linked' = Linked /\ OnBin' = OnBin
  BY DEF Linked, OnBin
<1>3. OwnedOnce'
  BY DEF TypeOK, OwnedOnce, Mine, FreeRight
<1>4. LinkedApart'
  BY <1>2 DEF TypeOK, LinkedApart, Mine, FreeRight
<1>5. LinkedOnce' /\ LinksRight'
  BY <1>2 DEF LinkedOnce, LinksRight, LinkRight, Together
<1>6. HeadRight' /\ CursorRight'
  BY <1>2 DEF TypeOK, HeadRight, CursorRight, IsFirst
<1>7. LockRight'
  BY DEF TypeOK, LockRight, LockLabels
<1>8. VictimRight'
  BY <1>2 DEF TypeOK, VictimRight
<1>9. FreeRight'
  BY DEF TypeOK, FreeRight, Links
<1> QED
  BY <1>1, <1>3, <1>4, <1>5, <1>6, <1>7, <1>8, <1>9

-----------------------------------------------------------------------------
(* Actions on the links                                                    *)

(* The memory of a chunk that is on no list, t's own or not.               *)
LEMMA WriteElsewhere ==
  ASSUME IInv, NEW c \in CHUNKS, c \notin Linked,
         NEW word \in Links, fd' = [fd EXCEPT ![c] = word],
         UNCHANGED <<fb, rank, detached>>
  PROVE  /\ Linked' = Linked /\ OnBin' = OnBin
         /\ \A d \in Linked : fd'[d] = fd[d]
         /\ LinkedOnce' /\ LinksRight' /\ HeadRight'
<1> USE DEF IInv
<1>1. Linked' = Linked /\ OnBin' = OnBin
  BY DEF Linked, OnBin
<1>2. \A d \in Linked : fd'[d] = fd[d]
  BY DEF TypeOK, Linked
<1>3. LinkedOnce' /\ HeadRight'
  BY <1>1 DEF LinkedOnce, Together, HeadRight, IsFirst
<1>4. LinksRight'
  BY <1>1, <1>2 DEF LinksRight, LinkRight, Together
<1> QED
  BY <1>1, <1>2, <1>3, <1>4

(* Writing the link of a chunk not yet on the bin disturbs no list.        *)
LEMMA FreeLinksInv == ASSUME IInv, NEW t \in THREADS, FreeLinks(t) PROVE IInv'
<1> USE NullAssumption DEF IInv, FreeLinks, Goes, owned, history
<1>1. p[t] \in CHUNKS /\ p[t] \notin Linked
  BY DEF TypeOK, FreeRight, LinkedApart, Mine, Links
<1>2. TypeOK'
  BY <1>1 DEF TypeOK, Labels
<1>3. /\ Linked' = Linked /\ OnBin' = OnBin
      /\ \A d \in Linked : fd'[d] = fd[d]
      /\ LinkedOnce' /\ LinksRight' /\ HeadRight'
  BY <1>1, WriteElsewhere DEF TypeOK
<1>4. OwnedOnce' /\ LinkedApart'
  BY <1>3 DEF OwnedOnce, LinkedApart, Mine
<1>5. CursorRight' /\ LockRight'
  BY DEF TypeOK, CursorRight, IsFirst, LockRight, LockLabels
<1>6. VictimRight'
  BY <1>3 DEF TypeOK, VictimRight, OnBin
<1>7. FreeRight'
  BY <1>1 DEF TypeOK, FreeRight, OwnedOnce, Mine
<1> QED
  BY <1>2, <1>3, <1>4, <1>5, <1>6, <1>7

(* What a program writes to memory it holds disturbs no list.              *)
LEMMA WritesInv == ASSUME IInv, NEW t \in THREADS, Writes(t) PROVE IInv'
<1> USE NullAssumption DEF IInv, Writes, locals, owned, history
<1>1. PICK c \in held[t] : \E word \in Links : fd' = [fd EXCEPT ![c] = word]
  OBVIOUS
<1>2. PICK word \in Links : fd' = [fd EXCEPT ![c] = word]
  BY <1>1
<1>3. c \in CHUNKS /\ c \notin Linked
  BY DEF TypeOK, LinkedApart, Mine
<1>4. TypeOK'
  BY <1>2, <1>3 DEF TypeOK
<1>5. /\ Linked' = Linked /\ OnBin' = OnBin
      /\ \A d \in Linked : fd'[d] = fd[d]
      /\ LinkedOnce' /\ LinksRight' /\ HeadRight'
  BY <1>2, <1>3, WriteElsewhere
<1>6. OwnedOnce' /\ LinkedApart'
  BY <1>5 DEF OwnedOnce, LinkedApart, Mine
<1>7. CursorRight' /\ LockRight'
  BY DEF CursorRight, IsFirst, LockRight
<1>8. VictimRight'
  BY <1>5 DEF VictimRight, OnBin
<1>9. FreeRight'
  <2>1. \A u \in THREADS : p[u] # c
    BY DEF TypeOK, OwnedOnce, Mine
  <2> QED
    BY <1>2, <2>1 DEF TypeOK, FreeRight
<1> QED
  BY <1>4, <1>5, <1>6, <1>7, <1>8, <1>9

(* A chunk is pushed: it comes first, and no chunk was in its place.       *)
LEMMA FreePushesInv == ASSUME IInv, NEW t \in THREADS, FreePushes(t) PROVE IInv'
<1> USE NullAssumption DEF IInv, FreePushes, Goes, owned
<1>0. p[t] \in CHUNKS
  BY DEF TypeOK, FreeRight, Links
<1> PICK c \in CHUNKS : c = p[t]
  BY <1>0
<1>1. c \in CHUNKS /\ c \notin Linked /\ fd[c] = fb
  BY DEF TypeOK, FreeRight, LinkedApart, Mine, Links
<1>2. fb # NULL => IsFirst(fb, OnBin)
  BY DEF HeadRight
<1>3. fb = NULL => OnBin = {}
  BY DEF HeadRight
<1> DEFINE place == IF fb = NULL THEN 1 ELSE rank[fb] + 1
<1>4. place \in Nat /\ place > 0 /\ \A d \in OnBin : rank[d] < place
  BY <1>2, <1>3 DEF TypeOK, IsFirst, OnBin, Linked
<1>5. rank' = [rank EXCEPT ![c] = place]
  OBVIOUS
<1> HIDE DEF place
<1>6. TypeOK'
  BY <1>1, <1>4, <1>5 DEF TypeOK, Links, Labels
<1>7. /\ Linked' = Linked \cup {c}
      /\ OnBin' = OnBin \cup {c}
      /\ c \notin detached
  BY <1>1, <1>4, <1>5 DEF TypeOK, Linked, OnBin, LinkedApart
<1>8. rank'[c] = place /\ \A d \in CHUNKS : d # c => rank'[d] = rank[d]
  BY <1>1, <1>5 DEF TypeOK
<1>9. OwnedOnce'
  BY DEF TypeOK, OwnedOnce, Mine, FreeRight
<1>10. LinkedApart'
  <2>1. c \notin binned
    BY <1>1 DEF OwnedOnce, Mine
  <2>2. \A u \in THREADS : Mine(u)' \subseteq Mine(u) /\ c \notin Mine(u)'
    BY <1>1 DEF TypeOK, OwnedOnce, Mine
  <2> QED
    BY <1>7, <2>1, <2>2 DEF LinkedApart
<1>11. LinkedOnce'
  BY <1>4, <1>7, <1>8 DEF LinkedOnce, Together, OnBin, Linked
<1>12. LinksRight'
  <2>1. LinkRight(c)'
    <3>1. CASE fb = NULL
      BY <3>1, <1>1, <1>8 DEF LinkRight, place
    <3>2. CASE fb # NULL
      <4>1. fb \in Linked /\ fb \notin detached /\ fb # c
        BY <3>2, <1>1, <1>2 DEF IsFirst, OnBin
      <4>2. rank[fb] \in Nat /\ rank[fb] > 0
        BY <4>1 DEF Linked, TypeOK
      <4>3. rank'[c] = rank[fb] + 1
        BY <3>2, <1>8 DEF place
      <4> QED
        BY <4>1, <4>2, <4>3, <1>1, <1>7, <1>8 DEF LinkRight, Together, Linked
    <3> QED
      BY <3>1, <3>2
  <2>2. ASSUME NEW d \in Linked PROVE LinkRight(d)'
    <3>1. d \in CHUNKS /\ d # c /\ LinkRight(d)
      BY <1>1 DEF Linked, LinksRight
    <3>2. fd'[d] = fd[d] /\ rank'[d] = rank[d]
      BY <3>1, <1>8
    <3>3. CASE rank[d] = 1
      BY <3>1, <3>2, <3>3 DEF LinkRight
    <3>4. CASE rank[d] # 1
      <4>1. fd[d] \in Linked /\ rank'[fd[d]] = rank[fd[d]]
        BY <3>1, <3>4, <1>1, <1>8 DEF LinkRight, Linked
      <4> QED
        BY <3>1, <3>2, <3>4, <4>1, <1>7 DEF LinkRight, Together
    <3> QED
      BY <3>3, <3>4
  <2> QED
    BY <1>7, <2>1, <2>2 DEF LinksRight
<1>13. HeadRight'
  BY <1>1, <1>4, <1>7, <1>8 DEF HeadRight, IsFirst, OnBin, Linked, TypeOK
<1>14. CursorRight'
  <2>1. \A d \in detached : d # c /\ d \in CHUNKS
    BY <1>7 DEF LinkedApart, Linked
  <2> QED
    BY <2>1, <1>8 DEF TypeOK, CursorRight, IsFirst
<1>15. LockRight'
  BY DEF TypeOK, LockRight, LockLabels
<1>16. VictimRight'
  BY <1>7 DEF TypeOK, VictimRight
<1>17. FreeRight'
  BY DEF TypeOK, FreeRight
<1> QED
  BY <1>6, <1>9, <1>10, <1>11, <1>12, <1>13, <1>14, <1>15, <1>16, <1>17

-----------------------------------------------------------------------------
(* Actions that take chunks off                                            *)

(* No link leads to the first chunk of a list; its own leads to the first  *)
(* of the others.                                                          *)
LEMMA NextOfFirst ==
  ASSUME IInv, NEW v \in Linked,
         \A d \in Linked : Together(d, v) => rank[d] <= rank[v]
  PROVE  /\ v \in CHUNKS /\ rank[v] \in Nat \ {0}
         /\ fd[v] = NULL => \A d \in Linked : Together(d, v) => d = v
         /\ fd[v] # NULL =>
              /\ fd[v] \in Linked /\ fd[v] # v /\ Together(fd[v], v)
              /\ \A d \in Linked \ {v} : Together(d, v) => rank[d] <= rank[fd[v]]
         /\ \A d \in Linked : fd[d] # v
<1> USE NullAssumption DEF IInv
<1>1. \A d \in Linked : d \in CHUNKS /\ rank[d] \in Nat /\ rank[d] > 0
  BY DEF TypeOK, Linked
<1>2. v \in CHUNKS /\ rank[v] \in Nat \ {0}
  BY <1>1
<1>3. \A d \in Linked : LinkRight(d)
  BY DEF LinksRight
<1>4. ASSUME NEW d \in Linked PROVE fd[d] # v
  <2>1. CASE rank[d] = 1
    BY <2>1, <1>1, <1>2, <1>3 DEF LinkRight
  <2>2. CASE rank[d] # 1
    BY <2>2, <1>1, <1>2, <1>3 DEF LinkRight, Together
  <2> QED
    BY <2>1, <2>2
<1>5. ASSUME NEW d \in Linked, Together(d, v), d # v PROVE rank[d] < rank[v]
  BY <1>1, <1>5 DEF LinkedOnce
<1>6. CASE rank[v] = 1
  <2>1. fd[v] = NULL
    BY <1>6, <1>3 DEF LinkRight
  <2>2. \A d \in Linked : Together(d, v) => d = v
    BY <1>1, <1>5, <1>6
  <2> QED
    BY <1>2, <1>4, <2>1, <2>2
<1>7. CASE rank[v] # 1
  <2>1. /\ fd[v] \in Linked /\ rank[fd[v]] = rank[v] - 1
        /\ Together(fd[v], v)
    BY <1>7, <1>3 DEF LinkRight, Together
  <2>2. fd[v] # NULL /\ fd[v] # v
    BY <1>1, <1>4, <2>1
  <2>3. \A d \in Linked \ {v} : Together(d, v) => rank[d] <= rank[fd[v]]
    BY <1>1, <1>2, <1>5, <2>1
  <2> QED
    BY <1>2, <1>4, <2>1, <2>2, <2>3
<1> QED
  BY <1>6, <1>7

(* The first chunk leaves its list.                                        *)
LEMMA FirstLeaves ==
  ASSUME IInv, NEW v \in Linked,
         \A d \in Linked : Together(d, v) => rank[d] <= rank[v],
         rank' = [rank EXCEPT ![v] = 0], detached' = detached \ {v},
         \A d \in CHUNKS : d # v => fd'[d] = fd[d]
  PROVE  /\ Linked' = Linked \ {v} /\ OnBin' = OnBin \ {v}
         /\ \A d \in Linked' : rank'[d] = rank[d]
         /\ LinkedOnce' /\ LinksRight'
<1> USE DEF IInv
<1>1. Linked' = Linked \ {v} /\ \A d \in Linked' : d \in CHUNKS /\ rank'[d] = rank[d]
  BY DEF TypeOK, Linked
<1>2. OnBin' = OnBin \ {v}
  BY <1>1 DEF OnBin
<1>3. LinkedOnce'
  BY <1>1 DEF LinkedOnce, Together
<1>4. ASSUME NEW d \in Linked \ {v} PROVE LinkRight(d)'
  <2>1. LinkRight(d) /\ fd[d] # v /\ fd'[d] = fd[d] /\ rank'[d] = rank[d]
    BY <1>1, NextOfFirst DEF LinksRight
  <2>2. CASE rank[d] = 1
    BY <2>1, <2>2 DEF LinkRight
  <2>3. CASE rank[d] # 1
    BY <2>1, <2>3, <1>1 DEF LinkRight, Together
  <2> QED
    BY <2>2, <2>3
<1>5. LinksRight'
  BY <1>1, <1>4 DEF LinksRight
<1> QED
  BY <1>1, <1>2, <1>3, <1>5

(* A chunk is removed: the victim was first all the while, and its link,   *)
(* read before, is still its link, since only what is in front has changed. *)
LEMMA RemoveFbInv == ASSUME IInv, NEW t \in THREADS, RemoveFb(t) PROVE IInv'
<1> USE NullAssumption DEF IInv, RemoveFb, Goes
<1>0. victim[t] \in OnBin /\ next[t] = fd[victim[t]]
  BY DEF VictimRight
<1> PICK v \in CHUNKS : v = victim[t]
  BY <1>0 DEF OnBin, Linked
<1>1. v \in Linked /\ v \notin detached /\ fb = v /\ fb' = fd[v]
  BY <1>0 DEF OnBin
<1>2. \A d \in Linked : Together(d, v) => d \in OnBin /\ rank[d] <= rank[v]
  BY <1>1 DEF HeadRight, IsFirst, OnBin, Together
<1>3. /\ fd[v] = NULL => \A d \in Linked : Together(d, v) => d = v
      /\ fd[v] # NULL =>
           /\ fd[v] \in Linked /\ fd[v] # v /\ Together(fd[v], v)
           /\ \A d \in Linked \ {v} : Together(d, v) => rank[d] <= rank[fd[v]]
  BY <1>1, <1>2, NextOfFirst
<1>4. /\ Linked' = Linked \ {v} /\ OnBin' = OnBin \ {v}
      /\ \A d \in Linked' : rank'[d] = rank[d]
      /\ LinkedOnce' /\ LinksRight'
  BY <1>1, <1>2, FirstLeaves
<1>5. TypeOK'
  BY <1>1 DEF TypeOK, Links, Labels
<1>6. /\ \A u \in THREADS : v \notin Mine(u) /\ Mine(u)' \subseteq Mine(u) \cup {v}
      /\ \A u \in THREADS : u # t => Mine(u)' = Mine(u)
      /\ v \notin binned
  BY <1>1 DEF TypeOK, LinkedApart, Mine
<1>7. OwnedOnce'
  <2>1. \A u \in THREADS : held'[u] \cap tcache'[u] = {} /\ p[u] \notin held'[u] \cup tcache'[u]
    BY <1>6 DEF TypeOK, OwnedOnce, Mine
  <2> QED
    BY <1>6, <2>1 DEF OwnedOnce
<1>8. LinkedApart'
  BY <1>1, <1>4, <1>6 DEF LinkedApart
<1>9. HeadRight'
  <2>1. CASE fd[v] = NULL
    BY <2>1, <1>1, <1>3, <1>4 DEF HeadRight, OnBin, Together
  <2>2. CASE fd[v] # NULL
    BY <2>2, <1>1, <1>3, <1>4 DEF HeadRight, IsFirst, OnBin, Together
  <2> QED
    BY <2>1, <2>2
<1>10. CursorRight'
  <2>1. \A d \in detached : rank'[d] = rank[d]
    BY <1>1, <1>4 DEF LinkedApart
  <2> QED
    BY <2>1 DEF TypeOK, CursorRight, IsFirst
<1>11. LockRight'
  BY DEF TypeOK, LockRight, LockLabels
<1>12. VictimRight'
  <2>1. \A u \in THREADS : u # t => pc[u] \notin {"fd", "cas"}
    BY OneHolder DEF LockLabels
  <2> QED
    BY <2>1 DEF TypeOK, VictimRight
<1>13. FreeRight'
  BY DEF TypeOK, FreeRight
<1> QED
  BY <1>4, <1>5, <1>7, <1>8, <1>9, <1>10, <1>11, <1>12, <1>13

(* malloc_consolidate takes the whole list; pushes start another.          *)
LEMMA ExchangeInv == ASSUME IInv, NEW t \in THREADS, Exchange(t) PROVE IInv'
<1> USE NullAssumption DEF IInv, Exchange, Goes, Unlock, NoneLeft, owned
<1>1. \A u \in THREADS : u # t => pc[u] \notin LockLabels
  BY OneHolder DEF LockLabels
<1>2. detached = {}
  BY <1>1 DEF CursorRight, LockLabels
<1>3. Linked' = Linked /\ OnBin = Linked /\ detached' = Linked /\ OnBin' = {}
  BY <1>2 DEF Linked, OnBin
<1>4. TypeOK'
  BY <1>3 DEF TypeOK, Links, Labels, Linked
<1>5. OwnedOnce' /\ LinkedApart'
  BY <1>3 DEF OwnedOnce, LinkedApart, Mine
<1>6. LinkedOnce' /\ LinksRight'
  BY <1>2, <1>3 DEF LinkedOnce, LinksRight, LinkRight, Together
<1>7. HeadRight'
  BY <1>3 DEF HeadRight
<1>8. CursorRight'
  <2>1. \A u \in THREADS : u # t => pc'[u] # "tear"
    BY <1>1 DEF TypeOK, LockLabels
  <2>2. CASE fb = NULL
    BY <2>1, <2>2, <1>3 DEF TypeOK, CursorRight, HeadRight
  <2>3. CASE fb # NULL
    BY <2>1, <2>3, <1>3 DEF TypeOK, CursorRight, HeadRight, IsFirst
  <2> QED
    BY <2>2, <2>3
<1>9. LockRight'
  BY DEF TypeOK, LockRight, LockLabels
<1>10. VictimRight'
  BY <1>1 DEF TypeOK, VictimRight, LockLabels
<1>11. FreeRight'
  BY DEF TypeOK, FreeRight
<1> QED
  BY <1>4, <1>5, <1>6, <1>7, <1>8, <1>9, <1>10, <1>11

(* A chunk of the list that was taken goes to a bin; the next is first.    *)
LEMMA TearInv == ASSUME IInv, NEW t \in THREADS, Tear(t) PROVE IInv'
<1> USE NullAssumption DEF IInv, Tear, Goes, Unlock, NoneLeft
<1>0. IsFirst(victim[t], detached)
  BY DEF CursorRight
<1> PICK v \in CHUNKS : v = victim[t]
  BY <1>0 DEF TypeOK, IsFirst
<1>1. v \in detached /\ v \in Linked
  BY <1>0 DEF IsFirst, LinkedApart
<1>2. \A d \in Linked : Together(d, v) => d \in detached /\ rank[d] <= rank[v]
  BY <1>0, <1>1 DEF IsFirst, Together
<1>3. /\ fd[v] = NULL => \A d \in Linked : Together(d, v) => d = v
      /\ fd[v] # NULL =>
           /\ fd[v] \in Linked /\ fd[v] # v /\ Together(fd[v], v)
           /\ \A d \in Linked \ {v} : Together(d, v) => rank[d] <= rank[fd[v]]
  BY <1>1, <1>2, NextOfFirst
<1> PICK link \in Links : fd' = [fd EXCEPT ![v] = link]
  OBVIOUS
<1>4. \A d \in CHUNKS : d # v => fd'[d] = fd[d]
  BY DEF TypeOK
<1>5. /\ Linked' = Linked \ {v} /\ OnBin' = OnBin \ {v}
      /\ \A d \in Linked' : rank'[d] = rank[d]
      /\ LinkedOnce' /\ LinksRight'
  BY <1>1, <1>2, <1>4, FirstLeaves
<1>6. OnBin' = OnBin
  BY <1>1, <1>5 DEF OnBin
<1>7. TypeOK'
  BY DEF TypeOK, Links, Labels
<1>8. \A u \in THREADS : v \notin Mine(u) /\ Mine(u)' = Mine(u)
  BY <1>1 DEF LinkedApart, Mine
<1>9. OwnedOnce'
  BY <1>8 DEF OwnedOnce
<1>10. LinkedApart'
  BY <1>1, <1>5, <1>8 DEF LinkedApart
<1>11. HeadRight'
  BY <1>5, <1>6 DEF HeadRight, IsFirst, OnBin
<1>12. \A u \in THREADS : u # t => pc[u] \notin LockLabels
  BY OneHolder DEF LockLabels
<1>13. CursorRight'
  <2>1. \A u \in THREADS : u # t => pc'[u] # "tear"
    BY <1>12 DEF TypeOK, LockLabels
  <2>2. detached' = detached \ {v} /\ \A d \in detached' : d \in Linked /\ rank'[d] = rank[d] /\ Together(d, v)
    BY <1>1, <1>5 DEF LinkedApart, Together
  <2>3. CASE fd[v] = NULL
    BY <2>1, <2>2, <2>3, <1>3 DEF TypeOK, CursorRight
  <2>4. CASE fd[v] # NULL
    <3>1. fd[v] \in detached'
      BY <2>2, <2>4, <1>1, <1>3 DEF Together
    <3>2. \A d \in detached' : rank'[d] <= rank'[fd[v]]
      BY <2>2, <2>4, <3>1, <1>3
    <3>3. victim'[t] = fd[v] /\ pc' = pc
      BY <2>4 DEF TypeOK
    <3> QED
      BY <2>1, <3>1, <3>2, <3>3 DEF TypeOK, CursorRight, IsFirst
  <2> QED
    BY <2>3, <2>4
<1>14. LockRight'
  BY DEF TypeOK, LockRight, LockLabels
<1>15. VictimRight'
  BY <1>12 DEF TypeOK, VictimRight, LockLabels
<1>16. FreeRight'
  <2>1. \A u \in THREADS : p[u] # v
    BY <1>8 DEF Mine
  <2> QED
    BY <2>1, <1>4 DEF TypeOK, FreeRight, Links
<1> QED
  BY <1>5, <1>7, <1>9, <1>10, <1>11, <1>13, <1>14, <1>15, <1>16

-----------------------------------------------------------------------------
(* Every step of a thread keeps the invariant.                             *)
THEOREM NextIInv == IInv /\ [Next]_vars => IInv'
<1> SUFFICES ASSUME IInv, [Next]_vars PROVE IInv'
  OBVIOUS
<1>1. CASE UNCHANGED vars
  BY <1>1, Frame
     DEF IInv, vars, shared, locals, owned, history, TypeOK, CursorRight, IsFirst,
         LockRight, VictimRight, FreeRight, OnBin, Linked
<1>2. ASSUME NEW t \in THREADS, Thread(t) PROVE IInv'
  <2>1. CASE Locked(t)
    BY <2>1, ReadFbInv, ReadFdInv, RemoveFbInv, RemoveAgainInv, TakeBinnedInv,
       NoneBinnedInv, ConsolidateInv, ExchangeInv, TearInv DEF Locked
  <2>2. CASE Free(t)
    BY <2>2, FreeReadsInv, FreeLinksInv, FreePushesInv, FreeAgainInv DEF Free
  <2> QED
    BY <1>2, <2>1, <2>2, MallocCachedInv, MallocLocksInv, FreeCachedInv, FreeFastInv,
       FreeLargeInv, WritesInv DEF Thread
<1> QED
  BY <1>1, <1>2 DEF Next

(* However pushes and removals interleave, links lead down the ranks and no *)
(* linked chunk has an owner.                                              *)
THEOREM Invariance == Spec => []IInv
  BY InitIInv, NextIInv, PTL DEF Spec

(* No chunk is given out twice, whatever the threads do between each       *)
(* other's steps.                                                          *)
THEOREM ChunksOwnedOnce == Spec => []OwnedOnce
<1>1. IInv => OwnedOnce
  BY DEF IInv
<1> QED
  BY <1>1, Invariance, PTL

(* The check "double free or corruption (fasttop)" raises no false alarm.  *)
THEOREM NoAlarm == Spec => []NoFasttopAlarm
<1>1. IInv => NoFasttopAlarm
  BY DEF IInv, FreeRight, NoFasttopAlarm
<1> QED
  BY <1>1, Invariance, PTL

-----------------------------------------------------------------------------
(* No chunk is lost                                                        *)

(* A chunk that an action takes from somewhere, it puts somewhere.         *)
LEMMA NextAccounted == IInv /\ Accounted /\ [Next]_vars => Accounted'
<1> SUFFICES ASSUME IInv, Accounted, [Next]_vars, NEW c \in CHUNKS
             PROVE  c \in (Linked \cup binned)' \/ \E u \in THREADS : c \in Mine(u)'
  BY DEF Accounted
<1> USE DEF IInv
<1>0. c \in Linked \cup binned \/ \E u \in THREADS : c \in Mine(u)
  BY DEF Accounted
<1>1. CASE UNCHANGED <<rank, binned, held, tcache, p>>
  BY <1>0, <1>1 DEF Linked, Mine
<1>2. ASSUME NEW t \in THREADS, Thread(t)
      PROVE  c \in (Linked \cup binned)' \/ \E u \in THREADS : c \in Mine(u)'
  <2>1. CASE MallocCached(t) \/ FreeCached(t)
    <3>1. Mine(t)' = Mine(t) /\ \A u \in THREADS : u # t => Mine(u)' = Mine(u)
      BY <2>1 DEF MallocCached, FreeCached, locals, Mine, TypeOK
    <3>2. Linked' = Linked /\ binned' = binned
      BY <2>1 DEF MallocCached, FreeCached, history, Linked
    <3> QED
      BY <1>0, <3>1, <3>2
  <2>2. CASE FreeFast(t)
    <3>1. p[t] = NULL
      BY <2>2 DEF FreeFast, FreeRight
    <3>2. Mine(t)' = Mine(t) /\ \A u \in THREADS : u # t => Mine(u)' = Mine(u)
      BY <2>2, <3>1, NullAssumption DEF FreeFast, Mine, TypeOK
    <3>3. Linked' = Linked /\ binned' = binned
      BY <2>2 DEF FreeFast, history, Linked
    <3> QED
      BY <1>0, <3>2, <3>3
  <2>3. CASE TakeBinned(t)
    <3>1. \A u \in THREADS : Mine(u) \subseteq Mine(u)'
      BY <2>3 DEF TakeBinned, Mine, TypeOK
    <3>2. Linked' = Linked /\ \A d \in binned : d \in binned' \/ d \in Mine(t)'
      BY <2>3 DEF TakeBinned, history, Linked, Mine, TypeOK
    <3> QED
      BY <1>0, <3>1, <3>2
  <2>4. CASE FreePushes(t)
    <3>1. \A u \in THREADS : \A d \in Mine(u) : d \in Mine(u)' \/ d = p[t]
      BY <2>4 DEF FreePushes, owned, Mine, TypeOK
    <3>2. p[t] \in CHUNKS /\ old[t] \in CHUNKS \cup {NULL}
      BY <2>4 DEF FreePushes, FreeRight, TypeOK, Links
    <3>3. Linked \cup {p[t]} \subseteq Linked' /\ binned' = binned
      BY <2>4, <3>2 DEF FreePushes, owned, Linked, TypeOK
    <3> QED
      BY <1>0, <3>1, <3>3
  <2>5. CASE RemoveFb(t)
    <3>1. \A u \in THREADS : Mine(u) \subseteq Mine(u)'
      BY <2>5 DEF RemoveFb, Mine, TypeOK
    <3>2. victim[t] \in Mine(t)' /\ binned' = binned
      BY <2>5 DEF RemoveFb, Mine, TypeOK
    <3>3. \A d \in Linked : d \in Linked' \/ d = victim[t]
      BY <2>5 DEF RemoveFb, Linked, TypeOK
    <3> QED
      BY <1>0, <3>1, <3>2, <3>3
  <2>6. CASE Tear(t)
    <3>1. \A u \in THREADS : Mine(u)' = Mine(u)
      BY <2>6 DEF Tear, Mine
    <3>2. binned \cup {victim[t]} \subseteq binned'
      BY <2>6 DEF Tear
    <3>3. \A d \in Linked : d \in Linked' \/ d = victim[t]
      BY <2>6 DEF Tear, Linked, TypeOK
    <3> QED
      BY <1>0, <3>1, <3>2, <3>3
  <2>7. CASE \/ MallocLocks(t) \/ FreeLarge(t) \/ Writes(t)
             \/ FreeReads(t) \/ FreeLinks(t) \/ FreeAgain(t)
    BY <1>1, <2>7
       DEF MallocLocks, FreeLarge, Writes, FreeReads, FreeLinks, FreeAgain,
           locals, owned, history
  <2>8. CASE \/ ReadFb(t) \/ ReadFd(t) \/ RemoveAgain(t) \/ NoneBinned(t)
             \/ Consolidate(t) \/ Exchange(t)
    BY <1>1, <2>8
       DEF ReadFb, ReadFd, RemoveAgain, NoneBinned, Consolidate, Exchange,
           owned, history
  <2> QED
    BY <1>2, <2>1, <2>2, <2>3, <2>4, <2>5, <2>6, <2>7, <2>8 DEF Thread, Locked, Free
<1>3. CASE UNCHANGED vars
  BY <1>1, <1>3 DEF vars, locals, owned, history
<1> QED
  BY <1>2, <1>3 DEF Next

(* Every chunk is on the bin or the list that was taken off it, in another *)
(* bin, or a thread's.                                                     *)
THEOREM AllAccounted == Spec => []Accounted
<1>1. Init => Accounted
  BY DEF Init, Accounted
<1> QED
  BY <1>1, Invariance, NextAccounted, PTL DEF Spec

(* What Listed computes: the chunks that up to k links lead to from first. *)
Onward(chunks) == chunks \cup ({fd[c] : c \in chunks} \ {NULL})

Reach(r, first, n) ==
  r = [k \in 0 .. n |-> IF k = 0 THEN {first} \ {NULL} ELSE Onward(r[k - 1])]

(* There is such a function: each set is defined by the one before.        *)
LEMMA ReachExists ==
  ASSUME NEW first, NEW N \in Nat
  PROVE  \E r : Reach(r, first, N)
<1> DEFINE S == {n \in Nat : \E r : Reach(r, first, n)}
<1>1. 0 \in S
  <2> DEFINE r == [k \in 0 .. 0 |-> {first} \ {NULL}]
  <2>1. Reach(r, first, 0)
    BY DEF Reach
  <2> QED
    BY <2>1
<1>2. ASSUME NEW n \in Nat, n \in S PROVE n + 1 \in S
  <2>1. PICK r : Reach(r, first, n)
    BY <1>2
  <2> DEFINE v == [k \in 0 .. n + 1 |->
                     IF k = 0 THEN {first} \ {NULL} ELSE Onward(r[k - 1])]
  <2>2. \A k \in 0 .. n : v[k] = r[k]
    <3> TAKE k \in 0 .. n
    <3>1. r[k] = IF k = 0 THEN {first} \ {NULL} ELSE Onward(r[k - 1])
      BY <2>1, Zenon DEF Reach
    <3>2. k \in 0 .. n + 1
      OBVIOUS
    <3>3. v[k] = IF k = 0 THEN {first} \ {NULL} ELSE Onward(r[k - 1])
      BY <3>2, Zenon
    <3> QED
      BY <3>1, <3>3, Zenon
  <2>3. \A k \in 0 .. n + 1 : k # 0 => k - 1 \in 0 .. n
    OBVIOUS
  <2>4. Reach(v, first, n + 1)
    BY <2>2, <2>3 DEF Reach
  <2> HIDE DEF v
  <2>5. \E u : Reach(u, first, n + 1)
    BY <2>4
  <2> QED
    BY <2>5
<1>3. N \in S
  <2> HIDE DEF S
  <2> QED
    BY <1>1, <1>2, EveryNatural
<1> QED
  BY <1>3

(* Listed(first) is the last of these sets.                                *)
LEMMA ListedReach ==
  ASSUME NEW first
  PROVE  /\ Cardinality(CHUNKS) \in Nat
         /\ \E r : /\ Reach(r, first, Cardinality(CHUNKS))
                   /\ Listed(first) = r[Cardinality(CHUNKS)]
<1> DEFINE N == Cardinality(CHUNKS)
           f == CHOOSE r : Reach(r, first, N)
<1>1. N \in Nat
  BY ChunksAssumption, FS_CardinalityType
<1>2. Listed(first) = f[N]
  BY DEF Listed, Reach, Onward
<1> HIDE DEF N
<1>3. \E r : Reach(r, first, N)
  BY <1>1, ReachExists
<1>4. Reach(f, first, N)
  BY <1>3
<1> HIDE DEF f
<1> QED
  BY <1>1, <1>2, <1>4 DEF N

(* A list that is empty.                                                   *)
LEMMA NoneListed == Listed(NULL) = {}
<1> DEFINE N == Cardinality(CHUNKS)
<1>1. PICK r : Reach(r, NULL, N) /\ Listed(NULL) = r[N]
  BY ListedReach
<1>2. N \in Nat
  BY ListedReach
<1> HIDE DEF N
<1> DEFINE S == {k \in Nat : k <= N => r[k] = {}}
<1>3. 0 \in S
  BY <1>1, <1>2 DEF Reach
<1>4. ASSUME NEW k \in Nat, k \in S PROVE k + 1 \in S
  <2> SUFFICES ASSUME k + 1 <= N PROVE r[k + 1] = {}
    OBVIOUS
  <2>1. k + 1 \in 0 .. N /\ k + 1 # 0 /\ (k + 1) - 1 = k /\ r[k] = {}
    BY <1>2, <1>4
  <2>2. r[k + 1] = r[k] \cup ({fd[c] : c \in r[k]} \ {NULL})
    BY <1>1, <2>1 DEF Reach, Onward
  <2> QED
    BY <2>1, <2>2
<1>5. N \in S
  <2> HIDE DEF S
  <2> QED
    BY <1>2, <1>3, <1>4, EveryNatural
<1> QED
  BY <1>1, <1>5

(* A whole list: the bin's, or the one malloc_consolidate has taken.       *)
IsList(first, L) == L \in {OnBin, detached} /\ IsFirst(first, L)

(* A chunk of a list that is not its last is followed by one of the list.  *)
LEMMA NextInList ==
  ASSUME IInv, NEW L \in {OnBin, detached}, NEW c \in L
  PROVE  /\ c \in CHUNKS /\ rank[c] \in Nat \ {0}
         /\ rank[c] = 1 => fd[c] = NULL
         /\ rank[c] # 1 => fd[c] \in L /\ rank[fd[c]] = rank[c] - 1
         /\ \A d \in L : rank[d] = rank[c] => d = c
<1> USE DEF IInv
<1>1. c \in Linked /\ c \in CHUNKS /\ rank[c] \in Nat \ {0} /\ L \subseteq Linked
  BY DEF LinkedApart, OnBin, Linked, TypeOK
<1>2. LinkRight(c)
  BY <1>1 DEF LinksRight
<1>3. \A d \in Linked : Together(c, d) <=> d \in L
  BY <1>1 DEF Together, OnBin
<1>4. \A d \in L : rank[d] = rank[c] => d = c
  BY <1>1, <1>3 DEF LinkedOnce
<1>5. Together(c, fd[c]) /\ fd[c] \in Linked => fd[c] \in L
  BY <1>3
<1> QED
  BY <1>1, <1>2, <1>4, <1>5 DEF LinkRight

(* The places of a list are all taken.                                     *)
LEMMA EveryPlace ==
  ASSUME IInv, NEW first, NEW L, IsList(first, L), NEW k \in Nat, k < rank[first]
  PROVE  \E c \in L : rank[c] = rank[first] - k
<1> DEFINE S == {n \in Nat : n < rank[first] => \E c \in L : rank[c] = rank[first] - n}
<1>0. L \in {OnBin, detached} /\ first \in L
  BY DEF IsList, IsFirst
<1>1. rank[first] \in Nat
  BY <1>0, NextInList
<1>2. 0 \in S
  BY <1>0, <1>1
<1>3. ASSUME NEW n \in Nat, n \in S PROVE n + 1 \in S
  <2> SUFFICES ASSUME n + 1 < rank[first] PROVE \E c \in L : rank[c] = rank[first] - (n + 1)
    OBVIOUS
  <2>1. PICK c \in L : rank[c] = rank[first] - n
    BY <1>1, <1>3
  <2>2. fd[c] \in L /\ rank[fd[c]] = rank[c] - 1
    BY <1>0, <1>1, <2>1, NextInList
  <2> QED
    BY <1>1, <2>1, <2>2
<1>4. k \in S
  <2> HIDE DEF S
  <2> QED
    BY <1>2, <1>3, EveryNatural
<1> QED
  BY <1>4

(* So the rank of the first is no more than there are chunks.              *)
LEMMA FirstRank ==
  ASSUME IInv, NEW first, NEW L, IsList(first, L)
  PROVE  rank[first] <= Cardinality(CHUNKS) /\ rank[first] \in Nat \ {0}
<1>0. L \in {OnBin, detached} /\ first \in L
  BY DEF IsList, IsFirst
<1>1. rank[first] \in Nat \ {0}
  BY <1>0, NextInList
<1> DEFINE n == rank[first] - 1
           At(k) == CHOOSE c \in L : rank[c] = rank[first] - k
           f == [k \in 0 .. n |-> At(k)]
<1>2. \A k \in 0 .. n : At(k) \in L /\ rank[At(k)] = rank[first] - k
  <2> TAKE k \in 0 .. n
  <2>1. k \in Nat /\ k < rank[first]
    BY <1>1
  <2>2. \E c \in L : rank[c] = rank[first] - k
    BY <2>1, EveryPlace
  <2> QED
    BY <2>2
<1>3. L \subseteq CHUNKS
  BY <1>0, NextInList
<1> HIDE DEF At
<1>4. f \in [0 .. n -> CHUNKS]
  BY <1>2, <1>3
<1>5. \A i, j \in 0 .. n : f[i] = f[j] => i = j
  BY <1>1, <1>2
<1>6. n \in Nat /\ n + 1 = rank[first]
  BY <1>1
<1> HIDE DEF f, n
<1>7. n < Cardinality(CHUNKS)
  BY <1>4, <1>5, <1>6, ChunksAssumption, ManyValues
<1>8. Cardinality(CHUNKS) \in Nat
  BY ChunksAssumption, FS_CardinalityType
<1> QED
  BY <1>1, <1>6, <1>7, <1>8

(* The links of a list lead to all of it and to nothing else.              *)
LEMMA ListedIs ==
  ASSUME IInv, NEW first, NEW L, IsList(first, L)
  PROVE  Listed(first) = L
<1> DEFINE N == Cardinality(CHUNKS)
           From(k) == {c \in L : rank[c] >= rank[first] - k}
<1>1. PICK r : Reach(r, first, N) /\ Listed(first) = r[N]
  BY ListedReach
<1>2. N \in Nat /\ rank[first] \in Nat \ {0} /\ rank[first] <= N
  BY ListedReach, FirstRank
<1> HIDE DEF N
<1> DEFINE S == {k \in Nat : k <= N => r[k] = From(k)}
<1>3. L \in {OnBin, detached} /\ first \in L /\ \A c \in L : rank[c] <= rank[first]
  BY DEF IsList, IsFirst
<1>4. \A c \in L : c # NULL
  BY <1>3, NextInList, NullAssumption
<1>5. 0 \in S
  <2>1. r[0] = {first} \ {NULL}
    BY <1>1, <1>2 DEF Reach
  <2>2. \A c \in L : rank[c] >= rank[first] => c = first
    <3> TAKE c \in L
    <3>1. rank[c] \in Nat /\ rank[c] <= rank[first]
      BY <1>3, NextInList
    <3>2. rank[c] = rank[first] => c = first
      BY <1>3, NextInList
    <3> QED
      BY <1>2, <3>1, <3>2
  <2> QED
    BY <1>2, <1>3, <1>4, <2>1, <2>2
<1>6. ASSUME NEW k \in Nat, k \in S PROVE k + 1 \in S
  <2> SUFFICES ASSUME k + 1 <= N PROVE r[k + 1] = From(k + 1)
    OBVIOUS
  <2>1. k + 1 \in 0 .. N /\ k + 1 # 0 /\ (k + 1) - 1 = k /\ r[k] = From(k)
    BY <1>2, <1>6
  <2>2. r[k + 1] = r[k] \cup ({fd[c] : c \in r[k]} \ {NULL})
    BY <1>1, <2>1 DEF Reach, Onward
  <2>3. \A c \in From(k) : fd[c] = NULL \/ fd[c] \in From(k + 1)
    <3> TAKE c \in From(k)
    <3>1. rank[c] \in Nat \ {0} /\ rank[c] >= rank[first] - k
      BY <1>3, NextInList
    <3>2. fd[c] = NULL \/ (fd[c] \in L /\ rank[fd[c]] = rank[c] - 1)
      BY <1>3, NextInList
    <3> QED
      BY <1>2, <3>1, <3>2
  <2>4. From(k) \subseteq From(k + 1)
    BY <1>2, <1>3, NextInList
  <2>5. ASSUME NEW d \in From(k + 1), d \notin From(k)
        PROVE  \E c \in From(k) : fd[c] = d
    <3>1. d \in L /\ rank[d] \in Nat \ {0} /\ rank[d] = rank[first] - (k + 1)
      BY <1>2, <1>3, <2>5, NextInList
    <3>2. PICK c \in L : rank[c] = rank[first] - k
      BY <1>2, <3>1, EveryPlace
    <3>3. fd[c] \in L /\ rank[fd[c]] = rank[c] - 1
      BY <1>2, <1>3, <3>1, <3>2, NextInList
    <3>4. fd[c] = d
      BY <1>2, <1>3, <3>1, <3>2, <3>3, NextInList
    <3> QED
      BY <1>2, <3>2, <3>4
  <2> HIDE DEF From
  <2>6. \A d \in From(k + 1) : d # NULL
    BY <1>4 DEF From
  <2> QED
    BY <2>1, <2>2, <2>3, <2>4, <2>5, <2>6
<1>7. N \in S
  <2> HIDE DEF S
  <2> QED
    BY <1>2, <1>5, <1>6, EveryNatural
<1>8. From(N) = L
  <2>1. \A c \in L : rank[c] \in Nat
    BY <1>3, NextInList
  <2> QED
    BY <1>2, <2>1
<1>9. r[N] = From(N)
  <2> HIDE DEF From
  <2> QED
    BY <1>2, <1>7
<1> HIDE DEF From
<1> QED
  BY <1>1, <1>8, <1>9

(* The links of the bin and of the list that malloc_consolidate works      *)
(* through lead to every chunk that nobody has, and to no other: no push   *)
(* that races with them makes either list lose its tail or share it.       *)
THEOREM NoneLost == Spec => []NothingLost
<1>1. IInv /\ Accounted => NothingLost
  <2> SUFFICES ASSUME IInv, Accounted PROVE NothingLost
    OBVIOUS
  <2> USE DEF IInv
  <2>1. Listed(fb) = OnBin
    BY NoneListed, ListedIs DEF HeadRight, IsList
  <2>2. UNION {Listed(c) : c \in Cursor} = detached
    <3>1. CASE \E t \in THREADS : pc[t] = "tear"
      <4>1. PICK t \in THREADS : pc[t] = "tear"
        BY <3>1
      <4>2. \A u \in THREADS : u # t => pc[u] # "tear"
        BY <4>1, OneHolder DEF LockLabels
      <4>3. Cursor = {victim[t]}
        BY <4>1, <4>2 DEF Cursor
      <4>4. Listed(victim[t]) = detached
        BY <4>1, ListedIs DEF CursorRight, IsList
      <4> QED
        BY <4>3, <4>4
    <3>2. CASE \A t \in THREADS : pc[t] # "tear"
      <4>1. Cursor = {} /\ detached = {}
        BY <3>2 DEF Cursor, CursorRight
      <4> QED
        BY <4>1
    <3> QED
      BY <3>1, <3>2
  <2>3. OnBin \cup detached = Linked
    BY DEF LinkedApart, OnBin
  <2> DEFINE others == binned \cup UNION {Mine(t) : t \in THREADS}
  <2>4. Linked \cup others = CHUNKS
    <3>1. Linked \subseteq CHUNKS /\ binned \subseteq CHUNKS
      BY DEF Linked, TypeOK
    <3>2. \A t \in THREADS : Mine(t) \subseteq CHUNKS
      BY DEF Mine, TypeOK, Links
    <3> QED
      BY <3>1, <3>2 DEF Accounted
  <2>5. Linked \cap others = {}
    BY DEF LinkedApart
  <2> QED
    BY <2>1, <2>2, <2>3, <2>4, <2>5 DEF NothingLost
<1> QED
  BY <1>1, Invariance, AllAccounted, PTL
=============================================================================
