---------------------------- MODULE MCAllocators ----------------------------
(* The four allocators of the repository against one promise.  A behaviour *)
(* is one allocator, chosen in the initial state, with its client; the     *)
(* variables of the other three keep their first values.                   *)
EXTENDS SlabAllocator, TLC

CONSTANTS CAPACITY, Pattern, ArenaRequests, ArenaBases, ARENA_CAPACITY, ARENA_WORD

VARIABLES
    free_list, word, allocated, held,
    g_free_list, g_initialized, g_word, g_held,
    memory, used, blocks,
    unit            \* the allocator under test

Mem == INSTANCE PoolsAndArena WITH capacity <- CAPACITY, POOL_CAPACITY <- CAPACITY

ASSUME MCAllocatorsAssumption == Mem!PoolsAndArenaAssumption

poolVars   == <<free_list, word, allocated, held>>
staticVars == <<g_free_list, g_initialized, g_word, g_held>>
arenaVars  == <<memory, used, blocks>>

Units == {"slab", "pool", "static", "arena"}

MCInit ==
    /\ Init /\ Mem!PoolInit /\ Mem!StaticInit /\ Mem!ArenaInit
    /\ unit \in Units
    \* what does not run has one initial state
    /\ unit # "slab" => LET r == CHOOSE r \in Requests : TRUE
                        IN  obj_size = ObjSize(r[1], r[2])
    /\ unit # "arena" => memory = (CHOOSE m \in ArenaBases : TRUE)

MCNext ==
    /\ UNCHANGED unit
    /\ \/ unit = "slab" /\ Next /\ UNCHANGED <<poolVars, staticVars, arenaVars>>
       \/ unit = "pool" /\ Mem!PoolNext /\ UNCHANGED <<vars, staticVars, arenaVars>>
       \/ unit = "static" /\ Mem!StaticNext /\ UNCHANGED <<vars, poolVars, arenaVars>>
       \/ unit = "arena" /\ Mem!ArenaNext /\ UNCHANGED <<vars, poolVars, staticVars>>

MCSpec == MCInit /\ [][MCNext]_<<vars, poolVars, staticVars, arenaVars, unit>>

\* The values of the constants
MCRequests == {<<1, 0>>, <<3, 1>>, <<9, 4>>}
MCArenaRequests == {<<1, 1>>, <<2, 2>>, <<4, 4>>, <<3, 1>>}
MCArenaBases == {0, 4}

Symmetry == Permutations(Slab) \union Permutations(Handle)

TypeOK ==
    SlabTypeOK /\ Mem!PoolTypeOK /\ Mem!StaticTypeOK /\ Mem!ArenaTypeOK

\* The lists of every allocator are exact: a slab is in the list its number of
\* objects in use asks for, its bitmap is what clients hold, the assertion of
\* slab_cache_alloc that a partial slab has a free slot holds, and the free lists
\* of both pools are the free slots.
AllListsAreExact ==
    SlotFound /\ ListsAreExact /\ Mem!PoolListExact /\ Mem!StaticListExact

\* The blocks of the arena are aligned and inside.
BlocksAreAligned == Mem!BlocksAreAligned

-----------------------------------------------------------------------------
\* A cell is a byte of a slab or of the arena, or a slot of a pool.
Cells(place, first, size) == {place} \X (first .. first + size - 1)

\* The block every pointer of the client of the allocator under test holds.
HeldBlock(h) ==
    CASE unit = "slab" /\ objects[h] # NULL ->
            Cells(objects[h][1], objects[h][2], obj_size)
      [] unit = "pool" /\ held[h] # NULL -> Cells(unit, held[h], 1)
      [] unit = "static" /\ g_held[h] # NULL -> Cells(unit, g_held[h], 1)
      [] unit = "arena" /\ blocks[h] # NULL ->
            Cells(unit, blocks[h][1], blocks[h][2])
      [] OTHER -> {}

Blocks ==
    {Cells(b, k * z, z) : b \in Slab, k \in 0 .. BITMAP_BITS - 1,
                          z \in {ObjSize(r[1], r[2]) : r \in Requests}}
    \union {Cells(u, o, 1) : u \in {"pool", "static"}, o \in 0 .. CAPACITY - 1}
    \union {Cells("arena", m + o, r[1]) : m \in ArenaBases, o \in 0 .. ARENA_CAPACITY,
                                          r \in ArenaRequests}

Promise == INSTANCE Allocator WITH
    Block <- Blocks,
    held  <- [h \in Handle |-> HeldBlock(h)]

\* Every allocator keeps the promise of an allocator: it never hands out memory
\* that its client still holds, whatever was freed in what order before.
ImplementsAllocator == Promise!Spec
=============================================================================
