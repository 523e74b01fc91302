----------------------------- MODULE FastbinRace -----------------------------
(***************************************************************************)
(* One fastbin of docs/malloc-impl.c between threads.  _int_free pushes    *)
(* without the lock of the arena (a compare-and-exchange loop);            *)
(* _int_malloc (REMOVE_FB) and malloc_consolidate take chunks off it with  *)
(* the lock held.  Chunks have one size; a chunk that is merged and given  *)
(* out again stands for the memory it was.                                 *)
(***************************************************************************)
EXTENDS Integers, FiniteSets, Functions

CONSTANTS THREADS, CHUNKS, NULL,
          TCACHE_COUNT  \* mp_.tcache_count

ASSUME NullAssumption == NULL \notin CHUNKS /\ NULL \notin THREADS
ASSUME CountAssumption == TCACHE_COUNT \in Nat
ASSUME ChunksAssumption == IsFiniteSet(CHUNKS)

Links == CHUNKS \cup {NULL}

VARIABLES
  fb,               \* *fb, the first chunk of the fastbin
  fd,               \* the word of each chunk that is its link while it is free
  mutex,            \* the thread that holds av->mutex
  have_fastchunks,
  pc,
  p,                \* the chunk that _int_free has not linked yet
  old,              \* what it saw as *fb
  victim, next,     \* what REMOVE_FB saw as *fb and its link; the cursor of
                    \* malloc_consolidate
  asks,             \* _int_malloc still looks for its chunk; it may then go
                    \* on and fill the thread cache
  held,             \* the chunks the thread's program holds
  tcache,           \* the chunks of its thread cache
  binned,           \* the chunks of the other bins and top
  rank,             \* history: the place of a chunk in its list, from the
                    \* last one, which has 1; 0 if it is in none
  detached          \* history: the chunks malloc_consolidate has taken

shared == <<fb, fd, mutex, have_fastchunks>>
locals == <<pc, p, old, victim, next, asks>>
owned  == <<held, tcache, binned>>
history == <<rank, detached>>
vars   == <<shared, locals, owned, history>>

Init ==
  /\ fb = NULL /\ fd = [c \in CHUNKS |-> NULL]
  /\ mutex = NULL /\ have_fastchunks = FALSE
  /\ pc = [t \in THREADS |-> "idle"]
  /\ p = [t \in THREADS |-> NULL] /\ old = [t \in THREADS |-> NULL]
  /\ victim = [t \in THREADS |-> NULL] /\ next = [t \in THREADS |-> NULL]
  /\ asks = [t \in THREADS |-> FALSE]
  /\ held = [t \in THREADS |-> {}] /\ tcache = [t \in THREADS |-> {}]
  /\ binned = CHUNKS
  /\ rank = [c \in CHUNKS |-> 0] /\ detached = {}

Goes(t, label) == pc' = [pc EXCEPT ![t] = label]

full(t) == Cardinality(tcache[t]) >= TCACHE_COUNT

Unlock(t) == mutex' = NULL /\ Goes(t, "idle")

-----------------------------------------------------------------------------
(* __libc_malloc and _int_malloc                                           *)

MallocCached(t) ==
  /\ pc[t] = "idle"
  /\ \E c \in tcache[t] :
       /\ tcache' = [tcache EXCEPT ![t] = @ \ {c}]
       /\ held' = [held EXCEPT ![t] = @ \cup {c}]
  /\ UNCHANGED <<shared, locals, binned, history>>

wrong_unlocked == TRUE  \* the lock is not waited for

unlocked == mutex = NULL

MallocLocks(t) ==
  /\ pc[t] = "idle" /\ tcache[t] = {} /\ unlocked
  /\ mutex' = t
  /\ asks' = [asks EXCEPT ![t] = TRUE]
  /\ Goes(t, "fast")
  /\ UNCHANGED <<fb, fd, have_fastchunks, p, old, victim, next, owned, history>>

(* The fastbin is empty: other bins, or the cache has been filled.        *)
NoneLeft(t) ==
  IF asks[t] THEN Goes(t, "bins") /\ UNCHANGED mutex ELSE Unlock(t)

ReadFb(t) ==
  /\ pc[t] = "fast"
  /\ IF ~asks[t] /\ full(t) THEN Unlock(t) /\ UNCHANGED victim
     ELSE /\ victim' = [victim EXCEPT ![t] = fb]
          /\ IF fb = NULL THEN NoneLeft(t) ELSE Goes(t, "fd") /\ UNCHANGED mutex
  /\ UNCHANGED <<fb, fd, have_fastchunks, p, old, next, asks, owned, history>>

ReadFd(t) ==
  /\ pc[t] = "fd"
  /\ next' = [next EXCEPT ![t] = fd[victim[t]]]
  /\ Goes(t, "cas")
  /\ UNCHANGED <<shared, p, old, victim, asks, owned, history>>

RemoveFb(t) ==
  /\ pc[t] = "cas" /\ fb = victim[t]
  /\ fb' = next[t]
  /\ rank' = [rank EXCEPT ![victim[t]] = 0]
  /\ IF asks[t] THEN held' = [held EXCEPT ![t] = @ \cup {victim[t]}] /\ UNCHANGED tcache
                ELSE tcache' = [tcache EXCEPT ![t] = @ \cup {victim[t]}] /\ UNCHANGED held
  /\ asks' = [asks EXCEPT ![t] = FALSE]
  /\ victim' = [victim EXCEPT ![t] = NULL] /\ next' = [next EXCEPT ![t] = NULL]
  /\ Goes(t, "fast")
  /\ UNCHANGED <<fd, mutex, have_fastchunks, p, old, binned, detached>>

(* What the compare-and-exchange found becomes the next victim.            *)
wrong_found(t) == victim[t]

found(t) == fb

RemoveAgain(t) ==
  /\ pc[t] = "cas" /\ fb # victim[t]
  /\ victim' = [victim EXCEPT ![t] = found(t)]
  /\ next' = [next EXCEPT ![t] = NULL]
  /\ IF fb = NULL THEN NoneLeft(t) ELSE Goes(t, "fd") /\ UNCHANGED mutex
  /\ UNCHANGED <<fb, fd, have_fastchunks, p, old, asks, owned, history>>

(* The rest of _int_malloc: a chunk of another bin or of top; without one, *)
(* consolidate and look again, or give up.                                 *)
TakeBinned(t) ==
  /\ pc[t] = "bins"
  /\ \E c \in binned :
       /\ binned' = binned \ {c}
       /\ held' = [held EXCEPT ![t] = @ \cup {c}]
  /\ Unlock(t) /\ asks' = [asks EXCEPT ![t] = FALSE]
  /\ UNCHANGED <<fb, fd, have_fastchunks, p, old, victim, next, tcache, history>>

NoneBinned(t) ==
  /\ pc[t] = "bins" /\ binned = {}
  /\ IF have_fastchunks THEN Goes(t, "consolidate") /\ UNCHANGED <<mutex, asks>>
     ELSE Unlock(t) /\ asks' = [asks EXCEPT ![t] = FALSE]
  /\ UNCHANGED <<fb, fd, have_fastchunks, p, old, victim, next, owned, history>>

-----------------------------------------------------------------------------
(* _int_free                                                               *)

FreeCached(t) ==
  /\ pc[t] = "idle" /\ ~full(t)
  /\ \E c \in held[t] :
       /\ held' = [held EXCEPT ![t] = @ \ {c}]
       /\ tcache' = [tcache EXCEPT ![t] = @ \cup {c}]
  /\ UNCHANGED <<shared, locals, binned, history>>

FreeFast(t) ==
  /\ pc[t] = "idle" /\ full(t)
  /\ \E c \in held[t] :
       /\ held' = [held EXCEPT ![t] = @ \ {c}]
       /\ p' = [p EXCEPT ![t] = c]
  /\ have_fastchunks' = TRUE
  /\ Goes(t, "free")
  /\ UNCHANGED <<fb, fd, mutex, old, victim, next, asks, tcache, binned, history>>

FreeReads(t) ==
  /\ pc[t] = "free"
  /\ old' = [old EXCEPT ![t] = fb]
  /\ Goes(t, "link")
  /\ UNCHANGED <<shared, p, victim, next, asks, owned, history>>

(* old = p: malloc_printerr ("double free or corruption (fasttop)").       *)
FreeLinks(t) ==
  /\ pc[t] = "link"
  /\ old[t] # p[t]
  /\ fd' = [fd EXCEPT ![p[t]] = old[t]]
  /\ Goes(t, "push")
  /\ UNCHANGED <<fb, mutex, have_fastchunks, p, old, victim, next, asks, owned, history>>

FreePushes(t) ==
  /\ pc[t] = "push" /\ fb = old[t]
  /\ fb' = p[t]
  /\ rank' = [rank EXCEPT ![p[t]] = IF old[t] = NULL THEN 1 ELSE rank[old[t]] + 1]
  /\ p' = [p EXCEPT ![t] = NULL] /\ old' = [old EXCEPT ![t] = NULL]
  /\ Goes(t, "idle")
  /\ UNCHANGED <<fd, mutex, have_fastchunks, victim, next, asks, owned, detached>>

wrong_retry == "push"  \* with the link of the first attempt

retry == "link"

FreeAgain(t) ==
  /\ pc[t] = "push" /\ fb # old[t]
  /\ old' = [old EXCEPT ![t] = fb]
  /\ Goes(t, retry)
  /\ UNCHANGED <<shared, p, victim, next, asks, owned, history>>

(* The free of a large chunk, which is none of these.                      *)
FreeLarge(t) ==
  /\ pc[t] = "idle" /\ mutex = NULL
  /\ have_fastchunks
  /\ mutex' = t
  /\ Goes(t, "consolidate")
  /\ UNCHANGED <<fb, fd, have_fastchunks, p, old, victim, next, asks, owned, history>>

-----------------------------------------------------------------------------
(* malloc_consolidate                                                      *)

Consolidate(t) ==
  /\ pc[t] = "consolidate"
  /\ have_fastchunks' = FALSE
  /\ Goes(t, "exchange")
  /\ UNCHANGED <<fb, fd, mutex, p, old, victim, next, asks, owned, history>>

Exchange(t) ==
  /\ pc[t] = "exchange"
  /\ victim' = [victim EXCEPT ![t] = fb]
  /\ fb' = NULL
  /\ detached' = {c \in CHUNKS : rank[c] > 0}
  /\ IF fb = NULL THEN NoneLeft(t) ELSE Goes(t, "tear") /\ UNCHANGED mutex
  /\ UNCHANGED <<fd, have_fastchunks, p, old, next, asks, owned, rank>>

(* A chunk goes to the unsorted bin, or into top: its link is overwritten. *)
Tear(t) ==
  /\ pc[t] = "tear"
  /\ victim' = [victim EXCEPT ![t] = fd[victim[t]]]
  /\ binned' = binned \cup {victim[t]}
  /\ \E link \in Links : fd' = [fd EXCEPT ![victim[t]] = link]
  /\ rank' = [rank EXCEPT ![victim[t]] = 0]
  /\ detached' = detached \ {victim[t]}
  /\ IF fd[victim[t]] = NULL THEN NoneLeft(t) ELSE UNCHANGED <<pc, mutex>>
  /\ UNCHANGED <<fb, have_fastchunks, p, old, next, asks, held, tcache>>

-----------------------------------------------------------------------------
(* The program writes what it likes to the memory it holds.                *)
Writes(t) ==
  /\ \E c \in held[t] : \E word \in Links : fd' = [fd EXCEPT ![c] = word]
  /\ UNCHANGED <<fb, mutex, have_fastchunks, locals, owned, history>>

Locked(t) ==
  \/ ReadFb(t) \/ ReadFd(t) \/ RemoveFb(t) \/ RemoveAgain(t)
  \/ TakeBinned(t) \/ NoneBinned(t)
  \/ Consolidate(t) \/ Exchange(t) \/ Tear(t)

Free(t) == FreeReads(t) \/ FreeLinks(t) \/ FreePushes(t) \/ FreeAgain(t)

Thread(t) ==
  \/ MallocCached(t) \/ MallocLocks(t) \/ Locked(t)
  \/ FreeCached(t) \/ FreeFast(t) \/ Free(t) \/ FreeLarge(t)
  \/ Writes(t)

Next == \E t \in THREADS : Thread(t)

Spec == Init /\ [][Next]_vars /\ \A t \in THREADS : WF_vars(Locked(t) \/ Free(t))

-----------------------------------------------------------------------------
(* Properties                                                              *)

Labels == {"idle", "fast", "fd", "cas", "bins", "free", "link", "push",
           "consolidate", "exchange", "tear"}

LockLabels == {"fast", "fd", "cas", "bins", "consolidate", "exchange", "tear"}

(* The types of the state.                                                 *)
TypeOK ==
  /\ fb \in Links /\ fd \in [CHUNKS -> Links]
  /\ mutex \in THREADS \cup {NULL} /\ have_fastchunks \in BOOLEAN
  /\ pc \in [THREADS -> Labels]
  /\ p \in [THREADS -> Links] /\ old \in [THREADS -> Links]
  /\ victim \in [THREADS -> Links] /\ next \in [THREADS -> Links]
  /\ asks \in [THREADS -> BOOLEAN]
  /\ held \in [THREADS -> SUBSET CHUNKS] /\ tcache \in [THREADS -> SUBSET CHUNKS]
  /\ binned \in SUBSET CHUNKS
  /\ rank \in [CHUNKS -> Nat] /\ detached \in SUBSET CHUNKS

(* What a thread has to itself: what its program holds, its cache, and the *)
(* chunk that it is freeing.                                               *)
Mine(t) == held[t] \cup tcache[t] \cup ({p[t]} \ {NULL})

(* No chunk is given out twice: what a thread has, no other thread has,    *)
(* and no bin; and it has each chunk once.                                 *)
OwnedOnce ==
  /\ \A t \in THREADS : Mine(t) \cap binned = {}
  /\ \A t, u \in THREADS : t # u => Mine(t) \cap Mine(u) = {}
  /\ \A t \in THREADS : /\ held[t] \cap tcache[t] = {}
                        /\ p[t] \notin held[t] \cup tcache[t]

(* The chunks of a list by their links.                                    *)
Listed(first) ==
  LET reached[k \in 0..Cardinality(CHUNKS)] ==
        IF k = 0 THEN {first} \ {NULL}
        ELSE reached[k - 1] \cup ({fd[c] : c \in reached[k - 1]} \ {NULL})
  IN  reached[Cardinality(CHUNKS)]

Cursor == UNION {IF pc[t] = "tear" THEN {victim[t]} ELSE {} : t \in THREADS}

(* No chunk is lost, and none that somebody has is on the fastbin or on    *)
(* the list that malloc_consolidate works through.                         *)
NothingLost ==
  LET linked == Listed(fb) \cup UNION {Listed(c) : c \in Cursor}
      others == binned \cup UNION {Mine(t) : t \in THREADS}
  IN  linked \cup others = CHUNKS /\ linked \cap others = {}

(* The check for a double free at the top of the bin finds none, in a      *)
(* program that frees what it holds.                                       *)
NoFasttopAlarm == \A t \in THREADS : pc[t] = "link" => old[t] # p[t]

(* A thread that holds the lock lets go of it: only finitely many chunks   *)
(* can be pushed under REMOVE_FB, for what is pushed stays.                *)
LockIsReleased == \A t \in THREADS : (mutex = t) ~> (mutex # t)
=============================================================================
