----------------------------- MODULE TaggedStack ----------------------------
(***************************************************************************)
(* The two stacks of src/cas_aba_demo.c, shared by threads that push back  *)
(* the nodes they popped.  A tagged word is a pointer together with a tag  *)
(* of TagMod values: 4 for TaggedStack, whose tag is the lowest two bits   *)
(* of the word, and 1 for UnsafeStack, whose word is the pointer alone.    *)
(* Every action is one access to memory that another thread can see.       *)
(***************************************************************************)
EXTENDS Integers, Chains

CONSTANTS
    Thread,
    Node,
    NULL,
    TagMod,          \* TAG_MASK + 1
    MaxCas,          \* bound: the successful CASes of a behaviour
    SpuriousFailure  \* may compare_exchange_weak fail although the values agree

Ptr == Node \union {NULL}

TaggedStackAssumption ==
    /\ IsFiniteSet(Node) /\ NULL \notin Node \union Thread
    /\ TagMod \in Nat \ {0}
    /\ MaxCas \in Nat
    /\ SpuriousFailure \in BOOLEAN

\* A word of the stack, GET_PTR and GET_TAG of it, and MAKE_TV, which masks
\* the tag.
Word == [ptr : Ptr, tag : 0 .. TagMod - 1]
\* Mutant: the tag is not masked.
MAKE_TV_Unmasked(p, g) == [ptr |-> p, tag |-> g]

MAKE_TV(p, g) == [ptr |-> p, tag |-> g % TagMod]

VARIABLES
    tagged,       \* TaggedStack.tagged
    next,         \* of every node
    owner,        \* the thread that may use the node, NULL while it is in the stack
    pc,
    node,         \* the node a thread pushes, or popped last
    old_tv, new_tv,
    since,        \* successful CASes since the thread loaded old_tv
    cas,          \* successful CASes
    aba           \* has a CAS succeeded that missed changes of the stack

vars == <<tagged, next, owner, pc, node, old_tv, new_tv, since, cas, aba>>

EmptyStack ==
    /\ tagged = MAKE_TV(NULL, 0)
    /\ next = [a \in Node |-> NULL]
    /\ pc = [x \in Thread |-> "idle"]
    /\ node = [x \in Thread |-> NULL]
    /\ old_tv = [x \in Thread |-> MAKE_TV(NULL, 0)]
    /\ new_tv = [x \in Thread |-> MAKE_TV(NULL, 0)]
    /\ since = [x \in Thread |-> 0]
    /\ cas = 0
    /\ aba = FALSE

Init == EmptyStack /\ owner \in [Node -> Thread]

-----------------------------------------------------------------------------
Goto(x, label) == pc' = [pc EXCEPT ![x] = label]

LoadWord(x) ==
    /\ old_tv' = [old_tv EXCEPT ![x] = tagged]
    /\ since' = [since EXCEPT ![x] = 0]

\* A thread calls tagged_push with a node of its own, or tagged_pop.
CallPush(x) ==
    /\ pc[x] = "idle"
    /\ \E a \in Node : owner[a] = x /\ node' = [node EXCEPT ![x] = a]
    /\ Goto(x, "push_load")
    /\ UNCHANGED <<tagged, next, owner, old_tv, new_tv, since, cas, aba>>

CallPop(x) ==
    /\ pc[x] = "idle"
    /\ Goto(x, "pop_load")
    /\ UNCHANGED <<tagged, next, owner, node, old_tv, new_tv, since, cas, aba>>

PushLoad(x) ==
    /\ pc[x] = "push_load"
    /\ LoadWord(x)
    /\ Goto(x, "push_link")
    /\ UNCHANGED <<tagged, next, owner, node, new_tv, cas, aba>>

PushLink(x) ==
    /\ pc[x] = "push_link"
    /\ next' = [next EXCEPT ![node[x]] = old_tv[x].ptr]
    /\ new_tv' = [new_tv EXCEPT ![x] = MAKE_TV(node[x], old_tv[x].tag + 1)]
    /\ Goto(x, "push_cas")
    /\ UNCHANGED <<tagged, owner, node, old_tv, since, cas, aba>>

\* The compare_exchange of both loops
Install(x) ==
    /\ cas < MaxCas
    /\ tagged = old_tv[x]
    /\ tagged' = new_tv[x]
    /\ cas' = cas + 1
    /\ aba' = (aba \/ since[x] # 0)
    /\ since' = [y \in Thread |-> since[y] + 1]
    /\ Goto(x, "idle")

PushCas(x) ==
    /\ pc[x] = "push_cas"
    /\ Install(x)
    /\ owner' = [owner EXCEPT ![node[x]] = NULL]
    /\ UNCHANGED <<next, node, old_tv, new_tv>>

PushCasFails(x) ==
    /\ pc[x] = "push_cas"
    /\ tagged # old_tv[x] \/ SpuriousFailure
    /\ Goto(x, "push_load")
    /\ UNCHANGED <<tagged, next, owner, node, old_tv, new_tv, since, cas, aba>>

PopLoad(x) ==
    /\ pc[x] = "pop_load"
    /\ LoadWord(x)
    /\ Goto(x, IF tagged.ptr = NULL THEN "idle" ELSE "pop_next")
    /\ UNCHANGED <<tagged, next, owner, node, new_tv, cas, aba>>

\* Mutant: tagged_pop leaves the tag as it is.
PopNextSameTag(x) ==
    /\ pc[x] = "pop_next"
    /\ new_tv' = [new_tv EXCEPT ![x] = MAKE_TV(next[old_tv[x].ptr], old_tv[x].tag)]
    /\ Goto(x, "pop_cas")
    /\ UNCHANGED <<tagged, next, owner, node, old_tv, since, cas, aba>>

PopNext(x) ==
    /\ pc[x] = "pop_next"
    /\ new_tv' = [new_tv EXCEPT ![x] = MAKE_TV(next[old_tv[x].ptr], old_tv[x].tag + 1)]
    /\ Goto(x, "pop_cas")
    /\ UNCHANGED <<tagged, next, owner, node, old_tv, since, cas, aba>>

PopCas(x) ==
    /\ pc[x] = "pop_cas"
    /\ Install(x)
    /\ node' = [node EXCEPT ![x] = old_tv[x].ptr]
    /\ owner' = [owner EXCEPT ![old_tv[x].ptr] = x]
    /\ UNCHANGED <<next, old_tv, new_tv>>

PopCasFails(x) ==
    /\ pc[x] = "pop_cas"
    /\ tagged # old_tv[x] \/ SpuriousFailure
    /\ Goto(x, "pop_load")
    /\ UNCHANGED <<tagged, next, owner, node, old_tv, new_tv, since, cas, aba>>

-----------------------------------------------------------------------------
Push(x) == CallPush(x) \/ PushLoad(x) \/ PushLink(x) \/ PushCas(x) \/ PushCasFails(x)
Pop(x) == CallPop(x) \/ PopLoad(x) \/ PopNext(x) \/ PopCas(x) \/ PopCasFails(x)

Next == \E x \in Thread : Push(x) \/ Pop(x)

Spec == Init /\ [][Next]_vars

-----------------------------------------------------------------------------
PC == {"idle", "push_load", "push_link", "push_cas", "pop_load", "pop_next", "pop_cas"}

TypeOK ==
    /\ tagged \in Word
    /\ next \in [Node -> Ptr]
    /\ owner \in [Node -> Thread \union {NULL}]
    /\ pc \in [Thread -> PC]
    /\ node \in [Thread -> Ptr]
    /\ old_tv \in [Thread -> Word]
    /\ new_tv \in [Thread -> Word]
    /\ since \in [Thread -> Nat]
    /\ cas \in 0 .. MaxCas
    /\ aba \in BOOLEAN

\* The nodes of the stack, from the top.
Nodes == Chain(tagged.ptr, next, NULL)

\* The threads whose CAS would succeed now.
Succeeds(x) == pc[x] \in {"push_cas", "pop_cas"} /\ tagged = old_tv[x]

\* "The tag differs -> the CAS fails -> ABA is prevented" (line 96): the CAS of
\* tagged_pop never installs a stale successor.
TagPreventsAba ==
    \A x \in Thread :
        Succeeds(x) /\ pc[x] = "pop_cas" => new_tv[x].ptr = next[tagged.ptr]

\* A CAS that succeeds though the stack changed missed a multiple of TagMod changes.
TagCountsChanges == \A x \in Thread : Succeeds(x) => since[x] % TagMod = 0

\* A CAS of tagged_pop that missed none installs the successor of the node it takes.
PopInstallsSuccessor ==
    \A x \in Thread :
        Succeeds(x) /\ pc[x] = "pop_cas" /\ since[x] = 0 => new_tv[x].ptr = next[tagged.ptr]

\* The tag counts the changes modulo TagMod, and until a CAS has succeeded that
\* missed some the stack is intact: its nodes are those that belong to no
\* thread, and every pop that is about to succeed takes the top off.
IntactUntilAba ==
    /\ TagCountsChanges
    /\ ~ aba =>
          /\ {a \in Node : \E k \in DOMAIN Nodes : Nodes[k] = a} = {a \in Node : owner[a] = NULL}
          /\ PopInstallsSuccessor
=============================================================================
