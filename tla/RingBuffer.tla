----------------------------- MODULE RingBuffer -----------------------------
(* The growing circular queue of src/ring_buffer.c.  head and tail are     *)
(* only ever incremented, as machine words.                                *)
EXTENDS Integers, Bitwise

CONSTANTS
    Value, NULL,
    WORD,           \* values of a size_t
    Capacities,     \* what rb_init is called with
    MaxCount        \* bound: the values in the buffer

VARIABLES rb, ret

vars == <<rb, ret>>

is_power_of_two(n) == n > 0 /\ n & (n - 1) = 0
next_power_of_two(n) ==
    CHOOSE p \in 1 .. 2 * n + 1 :
        is_power_of_two(p) /\ p >= n /\ \A q \in 1 .. p - 1 : is_power_of_two(q) => q < n

rb_init(n) ==
    LET capacity == IF is_power_of_two(n) THEN n ELSE next_power_of_two(n)
    IN  [buf |-> [i \in 0 .. capacity - 1 |-> NULL], capacity |-> capacity,
         mask |-> capacity - 1, head |-> 0, tail |-> 0, count |-> 0]

Init == ret = NULL /\ \E n \in Capacities : rb = rb_init(n)

\* The i-th value from the front
At(i) == rb.buf[((rb.head + i) % WORD) & rb.mask]

\* Mutant: the buffer is copied as it lies.
GrownAsItLies ==
    LET new_cap == rb.capacity * 2
    IN  [buf |-> [i \in 0 .. new_cap - 1 |-> IF i < rb.count THEN rb.buf[i] ELSE NULL],
         capacity |-> new_cap, mask |-> new_cap - 1,
         head |-> 0, tail |-> rb.count, count |-> rb.count]

\* The buffer of twice the size, unrolled; NULL stands for what malloc left.
Grown ==
    LET new_cap == rb.capacity * 2
    IN  [buf |-> [i \in 0 .. new_cap - 1 |-> IF i < rb.count THEN At(i) ELSE NULL],
         capacity |-> new_cap, mask |-> new_cap - 1,
         head |-> 0, tail |-> rb.count, count |-> rb.count]

rb_full == rb.count = rb.capacity

rb_enqueue(x) ==
    LET r == IF rb_full THEN Grown ELSE rb
    IN  /\ rb.count < MaxCount
        /\ rb' = [r EXCEPT !.buf[r.tail & r.mask] = x,
                           !.tail = (@ + 1) % WORD, !.count = @ + 1]
        /\ ret' = <<"push back", x>>

\* The malloc of a greater buffer fails.
EnqueueRefused == rb_full /\ ret' = <<"refused">> /\ UNCHANGED rb

rb_dequeue ==
    IF rb.count = 0 THEN ret' = <<"pop front", NULL>> /\ UNCHANGED rb
    ELSE /\ rb' = [rb EXCEPT !.head = (@ + 1) % WORD, !.count = @ - 1]
         /\ ret' = <<"pop front", At(0)>>

rb_peek == ret' = <<"front", IF rb.count = 0 THEN NULL ELSE At(0)>> /\ UNCHANGED rb

Next == (\E x \in Value : rb_enqueue(x)) \/ EnqueueRefused \/ rb_dequeue \/ rb_peek

Spec == Init /\ [][Next]_vars

Contents == [k \in 1 .. rb.count |-> At(k - 1)]

\* "count = tail - head, always right in unsigned arithmetic" (line 184), and the
\* mask fits the capacity, so that no index leaves the buffer.
RingExact ==
    /\ is_power_of_two(rb.capacity) /\ rb.mask = rb.capacity - 1
    /\ DOMAIN rb.buf = 0 .. rb.mask
    /\ rb.count \in 0 .. rb.capacity
    /\ rb.count = (rb.tail - rb.head) % WORD
=============================================================================
