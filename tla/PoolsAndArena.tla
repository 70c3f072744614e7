---------------------------- MODULE PoolsAndArena ----------------------------
(***************************************************************************)
(* The pool of src/pool_allocator.c (Pool...), the static pool of          *)
(* src/embedded_pool.c (Static...), which initialises itself at the first  *)
(* allocation, and the bump allocator of src/arena_allocator.c (Arena...), *)
(* each with a client.  A client of a pool writes only to the slots it     *)
(* holds.  The free list lives in the slots: the first word of a free slot *)
(* is the link, the first word of a held slot is the client's and may look *)
(* like a link.                                                            *)
(***************************************************************************)
EXTENDS Integers, FiniteSets, Chains

CONSTANTS
    capacity,       \* of the pool
    POOL_CAPACITY,  \* of the static pool
    NULL,
    Handle,         \* the pointers the clients keep slots in
    Pattern,        \* what memset leaves in a word, 0xAB.. or 0xCD..
    ARENA_CAPACITY, \* of the arena
    ArenaBases,     \* the addresses malloc can return for it
    ArenaRequests,  \* the <<size, align>> arena_alloc is called with
    ARENA_WORD      \* size_t counts modulo ARENA_WORD

Slot == 0 .. capacity - 1
Word == Slot \union {NULL, Pattern}
StaticSlot == 0 .. POOL_CAPACITY - 1

\* NULL and the pattern are the address of no slot.  malloc's result has the
\* alignment of every request, and as the callers in the file do, the client of
\* the arena asks for sizes far below the greatest number.
PoolsAndArenaAssumption ==
    /\ {capacity, POOL_CAPACITY} \subseteq Nat \ {0}
    /\ {NULL, Pattern} \intersect (Slot \union StaticSlot) = {} /\ NULL # Pattern
    /\ NULL \notin Nat \X Nat \X Nat
    /\ IsFiniteSet(Handle)
    /\ {ARENA_CAPACITY, ARENA_WORD} \subseteq Nat \ {0}
    /\ ArenaBases # {} /\ ArenaBases \subseteq Nat
    /\ \A r \in ArenaRequests :
          /\ r = <<r[1], r[2]>> /\ r[1] \in Nat /\ r[2] \in Nat \ {0}
          /\ ARENA_CAPACITY + r[1] + r[2] <= ARENA_WORD
          /\ \A m \in ArenaBases : m % r[2] = 0

VARIABLES
    free_list,
    word,           \* the first word of every slot
    allocated,
    held            \* the slot every pointer of the client holds

poolVars == <<free_list, word, allocated, held>>

\* pool_init: every slot is linked to the next one.
PoolInit ==
    /\ free_list = 0
    /\ word = [k \in Slot |-> IF k < capacity - 1 THEN k + 1 ELSE NULL]
    /\ allocated = 0
    /\ held = [h \in Handle |-> NULL]

PoolAlloc(h) ==
    /\ held[h] = NULL
    /\ free_list # NULL
    /\ free_list' = word[free_list]
    /\ allocated' = allocated + 1
    /\ word' = [word EXCEPT ![free_list] = Pattern]
    /\ held' = [held EXCEPT ![h] = free_list]

\* The pool is exhausted and pool_alloc returns NULL.
PoolAllocFails == free_list = NULL /\ UNCHANGED poolVars

\* The pattern that is written first does not survive the link.
PoolFree(h) ==
    /\ held[h] # NULL
    /\ word' = [word EXCEPT ![held[h]] = free_list]
    /\ free_list' = held[h]
    /\ allocated' = allocated - 1
    /\ held' = [held EXCEPT ![h] = NULL]

\* The client stores what it likes in an object of its.
PoolUse(h) ==
    /\ held[h] # NULL
    /\ \E w \in Word : word' = [word EXCEPT ![held[h]] = w]
    /\ UNCHANGED <<free_list, allocated, held>>

PoolNext == PoolAllocFails \/ \E h \in Handle : PoolAlloc(h) \/ PoolFree(h) \/ PoolUse(h)

-----------------------------------------------------------------------------
PoolTypeOK ==
    /\ free_list \in Slot \union {NULL}
    /\ word \in [Slot -> Word]
    /\ allocated \in 0 .. capacity
    /\ held \in [Handle -> Slot \union {NULL}]

\* The free list holds exactly the slots the client does not hold, each once,
\* and allocated counts the others: pool_alloc fails only when the client
\* holds every slot (line 52).
PoolListExact ==
    LET list == Chain(free_list, [k \in Slot |-> IF word[k] = Pattern
                                                 THEN NULL ELSE word[k]], NULL)
    IN  /\ {list[k] : k \in DOMAIN list} = Slot \ {held[h] : h \in Handle}
        /\ Len(list) = capacity - allocated

-----------------------------------------------------------------------------
(* The static pool                                                         *)

VARIABLES
    g_free_list,
    g_initialized,
    g_word,         \* the first word of every g_pool_memory[k]
    g_held          \* the slot every pointer of the client holds

staticVars == <<g_free_list, g_initialized, g_word, g_held>>

\* The BSS segment is zero, and a zero word is a NULL link.
StaticInit ==
    /\ g_free_list = NULL
    /\ g_initialized = FALSE
    /\ g_word = [k \in StaticSlot |-> NULL]
    /\ g_held = [h \in Handle |-> NULL]

\* pool_static_init's list
FreshWord == [k \in StaticSlot |-> IF k < POOL_CAPACITY - 1 THEN k + 1 ELSE NULL]

\* Mutant: an empty free list is taken for a pool without a list.
StaticAllocReinitialises(h) ==
    LET fresh == g_free_list = NULL
        link  == IF fresh THEN FreshWord ELSE g_word
        obj   == IF fresh THEN 0 ELSE g_free_list
    IN  /\ g_held[h] = NULL
        /\ g_initialized' = TRUE
        /\ g_free_list' = link[obj]
        /\ g_word' = link
        /\ g_held' = [g_held EXCEPT ![h] = obj]

StaticAlloc(h) ==
    LET link == IF g_initialized THEN g_word ELSE FreshWord
        obj  == IF g_initialized THEN g_free_list ELSE 0
    IN  /\ g_held[h] = NULL
        /\ obj # NULL
        /\ g_initialized' = TRUE
        /\ g_free_list' = link[obj]
        /\ g_word' = link
        /\ g_held' = [g_held EXCEPT ![h] = obj]

\* The pool is exhausted and pool_static_alloc returns NULL.
StaticAllocFails ==
    g_initialized /\ g_free_list = NULL /\ UNCHANGED staticVars

StaticFree(h) ==
    /\ g_held[h] # NULL
    /\ g_word' = [g_word EXCEPT ![g_held[h]] = g_free_list]
    /\ g_free_list' = g_held[h]
    /\ g_held' = [g_held EXCEPT ![h] = NULL]
    /\ UNCHANGED g_initialized

StaticUse(h) ==
    /\ g_held[h] # NULL
    /\ \E w \in StaticSlot \union {NULL} : g_word' = [g_word EXCEPT ![g_held[h]] = w]
    /\ UNCHANGED <<g_free_list, g_initialized, g_held>>

StaticNext ==
    \/ StaticAllocFails
    \/ \E h \in Handle : StaticAlloc(h) \/ StaticFree(h) \/ StaticUse(h)

-----------------------------------------------------------------------------
StaticTypeOK ==
    /\ g_free_list \in StaticSlot \union {NULL}
    /\ g_initialized \in BOOLEAN
    /\ g_word \in [StaticSlot -> StaticSlot \union {NULL}]
    /\ g_held \in [Handle -> StaticSlot \union {NULL}]

\* Once the pool has initialised itself, the free list holds exactly the slots
\* the client does not hold, also after the pool was exhausted (line 29) and
\* filled again.
StaticListExact ==
    LET list == Chain(g_free_list, g_word, NULL)
    IN  g_initialized =>
          /\ {list[k] : k \in DOMAIN list} = StaticSlot \ {g_held[h] : h \in Handle}
          /\ Len(list) = POOL_CAPACITY - Cardinality({h \in Handle : g_held[h] # NULL})

-----------------------------------------------------------------------------
(* The arena.  Addresses are absolute: memory is what malloc returned.     *)

VARIABLES
    memory, used,
    blocks          \* the <<address, size, align>> every pointer holds

arenaVars == <<memory, used, blocks>>

\* (size + align - 1) & ~(align - 1), for a power of two
AlignUp(size, align) == (((size + align - 1) % ARENA_WORD) \div align) * align

ArenaInit ==
    /\ memory \in ArenaBases
    /\ used = 0
    /\ blocks = [h \in Handle |-> NULL]

\* Mutant: the end of the block is not compared with the capacity.
FitsAtStart(size, align) == AlignUp(used, align) <= ARENA_CAPACITY

Fits(size, align) == (AlignUp(used, align) + size) % ARENA_WORD <= ARENA_CAPACITY

ArenaAlloc(h, size, align) ==
    /\ blocks[h] = NULL
    /\ Fits(size, align)
    /\ blocks' = [blocks EXCEPT ![h] = <<memory + AlignUp(used, align), size, align>>]
    /\ used' = (AlignUp(used, align) + size) % ARENA_WORD
    /\ UNCHANGED memory

\* No room: arena_alloc returns NULL.
ArenaAllocFails(size, align) == ~Fits(size, align) /\ UNCHANGED arenaVars

\* The client drops all its pointers.
ArenaReset ==
    /\ used' = 0
    /\ blocks' = [h \in Handle |-> NULL]
    /\ UNCHANGED memory

ArenaNext ==
    \/ \E r \in ArenaRequests :
          ArenaAllocFails(r[1], r[2]) \/ \E h \in Handle : ArenaAlloc(h, r[1], r[2])
    \/ ArenaReset

-----------------------------------------------------------------------------
ArenaTypeOK ==
    /\ memory \in ArenaBases
    /\ used \in 0 .. ARENA_CAPACITY
    /\ blocks \in [Handle -> (Nat \X Nat \X Nat) \union {NULL}]

\* Every block lies inside the arena and starts at a multiple of the alignment
\* asked for, as the demonstration at the end of main expects (lines 183-190).
\* It needs the alignment of malloc: only offsets are rounded up.
BlocksAreAligned ==
    \A h \in Handle :
        blocks[h] # NULL =>
            /\ blocks[h][1] % blocks[h][3] = 0
            /\ blocks[h][1] >= memory
            /\ blocks[h][1] + blocks[h][2] <= memory + ARENA_CAPACITY
=============================================================================
