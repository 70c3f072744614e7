--------------------------- MODULE SlabAllocator ----------------------------
(***************************************************************************)
(* The slab cache of src/slab_allocator.c and a client that frees only     *)
(* what it has got and not yet freed.  A call is one action: the cache is  *)
(* sequential.  An object's address is its slab and the offset in the      *)
(* slab's memory; the bitmap is the set of the slots in use.               *)
(***************************************************************************)
EXTENDS Integers, FiniteSets, Chains

CONSTANTS
    Slab,             \* addresses slab_create can return
    NULL,
    Handle,           \* the pointers the client keeps objects in
    Requests,         \* the <<obj_size, alignment>> slab_cache_init is called with
    SLAB_PAGE_SIZE,
    BITMAP_BITS,      \* bits of a bitmap: 64 in the code
    POINTER_SIZE,     \* sizeof(void *)
    WORD              \* size_t counts modulo WORD

ASSUME SlabAssumption ==
    /\ NULL \notin Slab /\ NULL \notin Slab \X Nat
    /\ IsFiniteSet(Slab) /\ IsFiniteSet(Handle)
    /\ {SLAB_PAGE_SIZE, BITMAP_BITS, POINTER_SIZE} \subseteq Nat \ {0}
    /\ WORD \in Nat /\ WORD > Cardinality(Handle)
    /\ \A r \in Requests : r[1] \in Nat /\ r[2] \in {0, 1, 2, 4, 8, 16}

VARIABLES
    obj_size, objs_per_slab,
    partial, full,                  \* the heads of the two lists
    next, bitmap, free_count,       \* the fields of every slab
    total_allocated, total_freed,
    created,                        \* the slabs slab_create has made
    objects                         \* what every pointer of the client holds

cacheVars == <<obj_size, objs_per_slab>>
vars == <<cacheVars, partial, full, next, bitmap, free_count,
          total_allocated, total_freed, created, objects>>

-----------------------------------------------------------------------------
\* (x + align - 1) & ~(align - 1), for a power of two
RoundUp(x, align) == ((x + align - 1) \div align) * align

ObjSize(size, alignment) ==
    LET rounded == RoundUp(size, IF alignment = 0 THEN POINTER_SIZE ELSE alignment)
    IN  IF rounded < POINTER_SIZE THEN POINTER_SIZE ELSE rounded

\* Mutant: a slab may have more objects than its bitmap has bits.
ObjsPerSlabUnclamped(size) ==
    LET n == SLAB_PAGE_SIZE \div size IN IF n < 1 THEN 1 ELSE n

ObjsPerSlab(size) ==
    LET n == SLAB_PAGE_SIZE \div size
    IN  IF n > BITMAP_BITS THEN BITMAP_BITS ELSE IF n < 1 THEN 1 ELSE n

Init ==
    /\ \E r \in Requests :
         /\ obj_size = ObjSize(r[1], r[2])
         /\ objs_per_slab = ObjsPerSlab(ObjSize(r[1], r[2]))
    /\ partial \in Slab
    /\ full = NULL
    /\ next = [b \in Slab |-> NULL]
    /\ bitmap = [b \in Slab |-> {}]
    /\ free_count = [b \in Slab |-> objs_per_slab]
    /\ total_allocated = 0
    /\ total_freed = 0
    /\ created = {partial}
    /\ objects = [h \in Handle |-> NULL]

-----------------------------------------------------------------------------
\* The first zero bit below count, or -1; `used` holds the one bits.
FindFreeSlot(used, count) ==
    IF 0 .. count - 1 \subseteq used THEN -1
    ELSE CHOOSE k \in (0 .. count - 1) \ used :
            \A j \in 0 .. k - 1 : j \in used

\* Take a slot of b, the head of the partial list that goes on with `after`.
\* A slab that has become full moves to the full list.
AllocIn(h, b, used, free, after) ==
    LET slot == FindFreeSlot(used, objs_per_slab) IN
    /\ bitmap' = [bitmap EXCEPT ![b] = used \union {slot}]
    /\ free_count' = [free_count EXCEPT ![b] = free - 1]
    /\ total_allocated' = (total_allocated + 1) % WORD
    /\ created' = created \union {b}
    /\ objects' = [objects EXCEPT ![h] = <<b, slot * obj_size>>]
    /\ IF free = 1
         THEN /\ partial' = after
              /\ next' = [next EXCEPT ![b] = full]
              /\ full' = b
         ELSE /\ partial' = b
              /\ next' = [next EXCEPT ![b] = after]
              /\ UNCHANGED full
    /\ UNCHANGED <<cacheVars, total_freed>>

AllocPartial(h) ==
    /\ objects[h] = NULL
    /\ partial # NULL
    /\ AllocIn(h, partial, bitmap[partial], free_count[partial], next[partial])

\* slab_create gives the partial list a new slab ...
AllocCreate(h) ==
    /\ objects[h] = NULL
    /\ partial = NULL
    /\ \E b \in Slab \ created : AllocIn(h, b, {}, objs_per_slab, NULL)

\* ... or malloc fails and the cache is as before.
AllocFails == partial = NULL /\ UNCHANGED vars

-----------------------------------------------------------------------------
Listed(first) ==
    {Chain(first, next, NULL)[k] : k \in DOMAIN Chain(first, next, NULL)}

\* What both branches of slab_cache_free do.
ClearSlot(h) ==
    LET b == objects[h][1]
        slot == objects[h][2] \div obj_size
    IN
    /\ bitmap' = [bitmap EXCEPT ![b] = @ \ {slot}]
    /\ free_count' = [free_count EXCEPT ![b] = @ + 1]
    /\ total_freed' = (total_freed + 1) % WORD
    /\ objects' = [objects EXCEPT ![h] = NULL]

\* Mutant: the slab is unlinked as if it were the head of the full list.
FreeFullUnlinksHead(h) ==
    LET b == objects[h][1] IN
    /\ objects[h] # NULL
    /\ b \in Listed(full)
    /\ ClearSlot(h)
    /\ full' = next[b]
    /\ next' = [next EXCEPT ![b] = partial]
    /\ partial' = b
    /\ UNCHANGED <<cacheVars, total_allocated, created>>

\* Found in the full list: *prev is the head or the predecessor's next.
FreeFull(h) ==
    LET b == objects[h][1] IN
    /\ objects[h] # NULL
    /\ b \in Listed(full)
    /\ ClearSlot(h)
    /\ full' = IF full = b THEN next[b] ELSE full
    /\ next' = [c \in Slab |->
          IF c = b THEN partial
          ELSE IF c \in Listed(full) /\ next[c] = b THEN next[b] ELSE next[c]]
    /\ partial' = b
    /\ UNCHANGED <<cacheVars, total_allocated, created>>

FreePartial(h) ==
    /\ objects[h] # NULL
    /\ objects[h][1] \notin Listed(full)
    /\ objects[h][1] \in Listed(partial)
    /\ ClearSlot(h)
    /\ UNCHANGED <<cacheVars, partial, full, next, total_allocated, created>>

Next ==
    \/ AllocFails
    \/ \E h \in Handle :
          AllocPartial(h) \/ AllocCreate(h) \/ FreeFull(h) \/ FreePartial(h)

Spec == Init /\ [][Next]_vars

-----------------------------------------------------------------------------
SlabTypeOK ==
    /\ {obj_size, objs_per_slab} \subseteq Nat \ {0}
    /\ {partial, full} \subseteq Slab \union {NULL}
    /\ next \in [Slab -> Slab \union {NULL}]
    /\ bitmap \in [Slab -> SUBSET (0 .. BITMAP_BITS - 1)]
    /\ free_count \in [Slab -> 0 .. objs_per_slab]
    /\ {total_allocated, total_freed} \subseteq 0 .. WORD - 1
    /\ created \subseteq Slab
    /\ objects \in [Handle -> (Slab \X Nat) \union {NULL}]

\* The assertion of line 101, slot >= 0: the head of the partial list has a
\* free slot whatever was allocated and freed before.
SlotFound ==
    partial # NULL => FindFreeSlot(bitmap[partial], objs_per_slab) >= 0

\* The two lists (lines 110-114, 133-136) hold every slab exactly once, a slab
\* by whether it has a free slot; and bitmap, free_count and in_use (line 169)
\* agree with what the client holds, so no pointer of its is "unknown".
ListsAreExact ==
    LET InUse == {h \in Handle : objects[h] # NULL}
        Slots(b) == {objects[h][2] \div obj_size :
                       h \in {g \in InUse : objects[g][1] = b}}
        NoRepeats(first) ==
            Len(Chain(first, next, NULL)) = Cardinality(Listed(first))
    IN  /\ NoRepeats(partial) /\ NoRepeats(full)
        /\ Listed(partial) = {b \in created : free_count[b] > 0}
        /\ Listed(full) = {b \in created : free_count[b] = 0}
        /\ \A b \in created :
              /\ bitmap[b] = Slots(b)
              /\ free_count[b] = objs_per_slab - Cardinality(Slots(b))
        /\ (total_allocated - total_freed) % WORD = Cardinality(InUse)
=============================================================================
