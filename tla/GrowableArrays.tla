--------------------------- MODULE GrowableArrays ---------------------------
(***************************************************************************)
(* The arrays that grow: vector_t of src/vector.c, DynArray of             *)
(* src/dynamic_array.c, ArrayStack of src/stack.c and the strings of       *)
(* src/sds_simple.c.  An array in memory is a function on its places from  *)
(* 0 on; v is the structure under test.                                    *)
(***************************************************************************)
EXTENDS Integers, FiniteSets, SequencesExt

CONSTANTS
    Value, NULL,
    MaxSize         \* bound: the values in the array

VARIABLES v, ret

vars == <<v, ret>>

Memory(capacity) == [i \in 0 .. capacity - 1 |-> NULL]

\* realloc, or malloc and memcpy; NULL stands for what malloc left.
Resized(d, capacity) == [i \in 0 .. capacity - 1 |-> IF i \in DOMAIN d THEN d[i] ELSE NULL]

-----------------------------------------------------------------------------
vec_create(initial_cap) ==
    [data |-> Memory(initial_cap), size |-> 0, capacity |-> initial_cap]

grow ==
    LET new_cap == IF v.capacity = 0 THEN 4 ELSE v.capacity * 2
    IN  [v EXCEPT !.data = Resized(@, new_cap), !.capacity = new_cap]

WithRoom == IF v.size = v.capacity THEN grow ELSE v

vec_push(x) ==
    /\ v.size < MaxSize
    /\ v' = [WithRoom EXCEPT !.data[v.size] = x, !.size = @ + 1]
    /\ ret' = <<"push back", x>>

vec_pop ==
    /\ v.size > 0
    /\ v' = [v EXCEPT !.size = @ - 1]
    /\ ret' = <<"pop back", v.data[v.size - 1]>>

vec_get(idx) == idx < v.size /\ ret' = <<"get", idx, v.data[idx]>> /\ UNCHANGED v

vec_set(idx, x) ==
    /\ idx < v.size
    /\ v' = [v EXCEPT !.data[idx] = x]
    /\ ret' = <<"set", idx, x>>

\* memmove within the data, by one place up or down
MovedUp(d, idx, size) == [i \in DOMAIN d |-> IF i \in idx + 1 .. size THEN d[i - 1] ELSE d[i]]
MovedDown(d, idx, size) == [i \in DOMAIN d |-> IF i \in idx .. size - 1 THEN d[i + 1] ELSE d[i]]

vec_insert(idx, x) ==
    /\ idx <= v.size /\ v.size < MaxSize
    /\ v' = [WithRoom EXCEPT !.data = [MovedUp(@, idx, v.size) EXCEPT ![idx] = x], !.size = @ + 1]
    /\ ret' = <<"insert", idx, x>>

vec_remove(idx) ==
    /\ idx < v.size
    /\ v' = [v EXCEPT !.data = MovedDown(@, idx, v.size - 1), !.size = @ - 1]
    /\ ret' = <<"remove at", idx>>

vec_clear == v' = [v EXCEPT !.size = 0] /\ ret' = <<"clear">>

VectorNext ==
    \/ vec_pop \/ vec_clear
    \/ \E x \in Value : vec_push(x)
    \/ \E i \in 0 .. MaxSize :
          \/ vec_get(i) \/ vec_remove(i)
          \/ \E x \in Value : vec_set(i, x) \/ vec_insert(i, x)

-----------------------------------------------------------------------------
da_init == [data |-> Memory(1), size |-> 0, capacity |-> 1, total_copies |-> 0]

da_push(x) ==
    LET full == v.size = v.capacity
        room == IF full THEN v.capacity * 2 ELSE v.capacity
    IN  /\ v.size < MaxSize
        /\ v' = [data |-> [Resized(v.data, room) EXCEPT ![v.size] = x],
                 size |-> v.size + 1, capacity |-> room,
                 total_copies |-> v.total_copies + (IF full THEN v.size ELSE 0)]
        /\ ret' = <<"push back", x>>

\* main only pushes, and da_free ends the array.
da_free == v' = da_init /\ ret' = <<"clear">>

DynArrayNext == (\E x \in Value : da_push(x)) \/ da_free

-----------------------------------------------------------------------------
astack_init(capacity) == [data |-> Memory(capacity), top |-> -1, capacity |-> capacity]

Full == v.top >= v.capacity - 1

astack_push(x) ==
    LET s == IF Full THEN [v EXCEPT !.data = Resized(@, v.capacity * 2), !.capacity = @ * 2] ELSE v
    IN  /\ v.top + 1 < MaxSize
        /\ v' = [s EXCEPT !.data[v.top + 1] = x, !.top = @ + 1]
        /\ ret' = <<"push back", x>>

\* The realloc of a full stack fails.
PushRefused == Full /\ ret' = <<"refused">> /\ UNCHANGED v

astack_pop ==
    IF v.top < 0 THEN ret' = <<"pop back", NULL>> /\ UNCHANGED v
    ELSE ret' = <<"pop back", v.data[v.top]>> /\ v' = [v EXCEPT !.top = @ - 1]

astack_peek == ret' = <<"back", IF v.top < 0 THEN NULL ELSE v.data[v.top]>> /\ UNCHANGED v

StackNext == (\E x \in Value : astack_push(x)) \/ PushRefused \/ astack_pop \/ astack_peek

-----------------------------------------------------------------------------
(* sds: the header counts the characters; one more is the end of the text. *)

NUL == <<0>>

\* s[at ..] becomes the text t and its end.
Copied(d, at, t) ==
    [i \in DOMAIN d |-> IF i \in at .. at + Len(t) - 1 THEN t[i - at + 1]
                        ELSE IF i = at + Len(t) THEN NUL ELSE d[i]]

sds_new(init) ==
    [data |-> Copied(Memory(Len(init) + 1), 0, init), size |-> Len(init), capacity |-> Len(init)]

sds_cat(t) ==
    LET need == v.size + Len(t)
        room == IF need > v.capacity THEN need * 2 ELSE v.capacity
    IN  /\ need <= MaxSize
        /\ v' = [data |-> Copied(Resized(v.data, room + 1), v.size, t), size |-> need, capacity |-> room]
        /\ ret' = <<"append", t>>

\* The realloc fails: NULL is returned, s is as it was.
CatRefused(t) == v.size + Len(t) > v.capacity /\ ret' = <<"refused">> /\ UNCHANGED v

\* sds_free ends the string, and sds_new begins one.
sds_free == v' = sds_new(<<>>) /\ ret' = <<"clear">>

SdsNext ==
    \/ sds_free
    \/ \E t \in BoundedSeq(Value, MaxSize) : sds_cat(t) \/ CatRefused(t)

\* The text is as long as the header says, its end is in the memory.
StringExact ==
    /\ DOMAIN v.data = 0 .. v.capacity
    /\ v.size \in 0 .. v.capacity
    /\ \A i \in 0 .. v.size : v.data[i] = NUL <=> i = v.size

-----------------------------------------------------------------------------
Size == IF "top" \in DOMAIN v THEN v.top + 1 ELSE v.size
Contents == [k \in 1 .. Size |-> v.data[k - 1]]

\* Every place in use is in the memory and has been written; a DynArray has
\* copied fewer values than its capacity, which is at most twice its size: the
\* amortised cost the program shows.
ArrayExact ==
    /\ DOMAIN v.data = 0 .. v.capacity - 1
    /\ Size \in 0 .. v.capacity
    /\ \A k \in DOMAIN Contents : Contents[k] # NULL
    /\ "total_copies" \in DOMAIN v =>
          /\ v.total_copies = v.capacity - 1
          /\ v.capacity = 1 \/ v.capacity < 2 * v.size
=============================================================================
