------------------------------ MODULE SpscRing ------------------------------
(***************************************************************************)
(* SpscRing<T, Capacity> (include/fgep/core/spsc_ring.hpp): the lock-free  *)
(* ring between one producer thread and one consumer thread.               *)
(*                                                                         *)
(* A call is split at its accesses to memory the other thread also uses:   *)
(* the reload of the other side's index, the slot access, and the store    *)
(* that publishes the own index. Indices are std::size_t and wrap; they    *)
(* are counted modulo IndexModulus (2^64 in the build).                    *)
(*                                                                         *)
(* The C++ memory model is kept as far as the slots need it. A release     *)
(* store of an index carries the slot accesses made before it (head_rel,   *)
(* tail_rel: the index up to which it carries them); an acquire load that  *)
(* reads it makes them happen before whatever follows (p_sync, c_sync: up  *)
(* to which index this thread is ordered after the other one). The slots   *)
(* themselves are ordinary memory.                                         *)
(***************************************************************************)
EXTENDS Integers, Sequences

CONSTANTS
    Item,          \* the values a caller may push
    NoItem,        \* what a slot holds before its first use
    Capacity,      \* number of slots
    IndexModulus   \* 2^w for a w-bit std::size_t

\* spsc_ring.hpp:15-19. A power of two no larger than 2^w divides 2^w, which
\* is all that is used of it; fewer slots than index values keep "full" and
\* "empty" apart.
ASSUME CapacityAssumption ==
    /\ Capacity \in Nat /\ Capacity >= 2
    /\ IndexModulus \in Nat /\ IndexModulus > Capacity
    /\ IndexModulus % Capacity = 0

ASSUME NoItemAssumption == NoItem \notin Item

Index == 0 .. IndexModulus - 1

Slot == 0 .. Capacity - 1

VARIABLES
    head, cached_tail,   \* ProducerState
    tail, cached_head,   \* ConsumerState
    buffer,              \* buffer_
    ppc, p_item,         \* the push in progress and its argument
    cpc, c_out,          \* the pop in progress and its out parameter
    pushed, popped,      \* results of the last push and the last pop
    head_rel, tail_rel,  \* what the last release store of head, tail carries
    p_sync, c_sync       \* what the producer, the consumer has acquired

pvars == <<head, cached_tail, ppc, p_item, pushed, head_rel, p_sync>>

cvars == <<tail, cached_head, cpc, c_out, popped, tail_rel, c_sync>>

vars == <<head, cached_tail, tail, cached_head, buffer, ppc, p_item, cpc,
          c_out, pushed, popped, head_rel, tail_rel, p_sync, c_sync>>

-----------------------------------------------------------------------------
\* Mutant of Inc: the index does not wrap.
IncNoWrap(i) == i + 1

\* i + 1U and a - b on std::size_t.
Inc(i) == IF i = IndexModulus - 1 THEN 0 ELSE i + 1

Minus(a, b) == IF a >= b THEN a - b ELSE a - b + IndexModulus

\* i & mask, for a Capacity that is a power of two.
SlotOf(i) == i % Capacity

Init ==
    /\ head = 0 /\ cached_tail = 0
    /\ tail = 0 /\ cached_head = 0
    /\ buffer = [s \in Slot |-> NoItem]
    /\ ppc = "idle" /\ p_item = NoItem
    /\ cpc = "idle" /\ c_out = NoItem
    /\ pushed = TRUE /\ popped = NoItem
    /\ head_rel = 0 /\ tail_rel = 0
    /\ p_sync = 0 /\ c_sync = 0

-----------------------------------------------------------------------------
\* Mutant of LooksFull: compares head, not the next index.
LooksFullLate(known_tail) == Minus(head, known_tail) > Capacity

\* Mutant of LooksFull: one slot is never used.
LooksFullEarly(known_tail) == Minus(Inc(head), known_tail) >= Capacity

\* push: the index the producer would overwrite is still unread, as far as it
\* knows.
LooksFull(known_tail) == Minus(Inc(head), known_tail) > Capacity

\* push, first test, on the cached tail only.
PushBegin(item) ==
    /\ ppc = "idle"
    /\ p_item' = item
    /\ ppc' = IF LooksFull(cached_tail) THEN "reload" ELSE "write"
    /\ UNCHANGED <<head, cached_tail, pushed, head_rel, p_sync>>
    /\ UNCHANGED <<cvars, buffer>>

\* Mutant of PushReload: a relaxed load.
PushReloadRelaxed ==
    /\ ppc = "reload"
    /\ cached_tail' = tail
    /\ IF LooksFull(tail)
       THEN ppc' = "idle" /\ pushed' = FALSE /\ p_item' = NoItem
       ELSE ppc' = "write" /\ UNCHANGED <<pushed, p_item>>
    /\ UNCHANGED <<head, head_rel, p_sync>>
    /\ UNCHANGED <<cvars, buffer>>

\* push, acquire load of tail and second test.
PushReload ==
    /\ ppc = "reload"
    /\ cached_tail' = tail
    /\ p_sync' = tail_rel
    /\ IF LooksFull(tail)
       THEN ppc' = "idle" /\ pushed' = FALSE /\ p_item' = NoItem
       ELSE ppc' = "write" /\ UNCHANGED <<pushed, p_item>>
    /\ UNCHANGED <<head, head_rel>>
    /\ UNCHANGED <<cvars, buffer>>

\* push, the copy into the slot.
PushWrite ==
    /\ ppc = "write"
    /\ buffer' = [buffer EXCEPT ![SlotOf(head)] = p_item]
    /\ ppc' = "publish"
    /\ UNCHANGED <<head, cached_tail, p_item, pushed, head_rel, p_sync>>
    /\ UNCHANGED cvars

\* push, release store of head.
PushPublish ==
    /\ ppc = "publish"
    /\ head' = Inc(head)
    /\ head_rel' = Inc(head)
    /\ ppc' = "idle"
    /\ pushed' = TRUE
    /\ p_item' = NoItem
    /\ UNCHANGED <<cached_tail, p_sync>>
    /\ UNCHANGED <<cvars, buffer>>

-----------------------------------------------------------------------------
\* Mutant of PopBegin: trusts the cached head.
PopBeginCachedOnly ==
    /\ cpc = "idle"
    /\ cpc' = IF tail = cached_head THEN "idle" ELSE "read"
    /\ UNCHANGED <<tail, cached_head, c_out, popped, tail_rel, c_sync>>
    /\ UNCHANGED <<pvars, buffer>>

\* pop, first test, on the cached head only.
PopBegin ==
    /\ cpc = "idle"
    /\ cpc' = IF tail = cached_head THEN "reload" ELSE "read"
    /\ UNCHANGED <<tail, cached_head, c_out, popped, tail_rel, c_sync>>
    /\ UNCHANGED <<pvars, buffer>>

\* pop, acquire load of head and second test.
PopReload ==
    /\ cpc = "reload"
    /\ cached_head' = head
    /\ c_sync' = head_rel
    /\ IF tail = head
       THEN cpc' = "idle" /\ popped' = NoItem
       ELSE cpc' = "read" /\ UNCHANGED popped
    /\ UNCHANGED <<tail, c_out, tail_rel>>
    /\ UNCHANGED <<pvars, buffer>>

\* pop, the copy out of the slot.
PopRead ==
    /\ cpc = "read"
    /\ c_out' = buffer[SlotOf(tail)]
    /\ cpc' = "publish"
    /\ UNCHANGED <<tail, cached_head, popped, tail_rel, c_sync>>
    /\ UNCHANGED <<pvars, buffer>>

\* pop, release store of tail.
PopPublish ==
    /\ cpc = "publish"
    /\ tail' = Inc(tail)
    /\ tail_rel' = Inc(tail)
    /\ cpc' = "idle"
    /\ popped' = c_out
    /\ c_out' = NoItem
    /\ UNCHANGED <<cached_head, c_sync>>
    /\ UNCHANGED <<pvars, buffer>>

-----------------------------------------------------------------------------
Push == (\E item \in Item : PushBegin(item)) \/ PushReload \/ PushWrite \/ PushPublish

Pop == PopBegin \/ PopReload \/ PopRead \/ PopPublish

Next == Push \/ Pop

Spec == Init /\ [][Next]_vars

\* The consumer thread keeps calling pop (worker_loop, fgep_spsc_queue_perf).
FairSpec == Spec /\ WF_vars(Pop)

-----------------------------------------------------------------------------
\* Type correctness of the ring's fields and of the two calls in progress.
TypeOK ==
    /\ head \in Index /\ tail \in Index
    /\ cached_head \in Index /\ cached_tail \in Index
    /\ head_rel \in Index /\ tail_rel \in Index
    /\ p_sync \in Index /\ c_sync \in Index
    /\ buffer \in [Slot -> Item \cup {NoItem}]
    /\ ppc \in {"idle", "reload", "write", "publish"}
    /\ cpc \in {"idle", "reload", "read", "publish"}
    /\ p_item \in Item \cup {NoItem}
    /\ c_out \in Item \cup {NoItem}
    /\ pushed \in BOOLEAN
    /\ popped \in Item \cup {NoItem}

\* push writes a slot only when the pop that last read it happens before the
\* write, and pop reads a slot only when the push that filled it happens before
\* the read: the slots are free of data races although the cached indices that
\* push and pop decide on may be arbitrarily old.
NoDataRace ==
    /\ ppc = "write" => Minus(head, p_sync) < Capacity
    /\ cpc = "read" => Minus(c_sync, tail) \in 1 .. Capacity

\* The two threads are never inside the same slot, whatever push and pop
\* believe about each other's progress.
NoSharedSlot ==
    (ppc = "write" /\ cpc \in {"read", "publish"}) => SlotOf(head) # SlotOf(tail)

\* i + k on std::size_t.
Plus(i, k) == IF i + k >= IndexModulus THEN i + k - IndexModulus ELSE i + k

\* The items between tail and head, oldest first.
Content ==
    [k \in 1 .. Minus(head, tail) |-> buffer[SlotOf(Plus(tail, k - 1))]]

Fifo == INSTANCE BoundedFifo WITH
    queue <- Content, pushing <- p_item, popping <- cpc # "idle"

\* push and pop together behave as the bounded queue: items leave in the order
\* they entered, each exactly once and unchanged, push fails only at an instant
\* at which Capacity items are unread, pop fails only at one at which none is.
RefinesFifo == Fifo!Spec

\* An item that push has published is popped as long as the consumer keeps
\* calling pop: a cached head that says "empty" is always looked at again.
PublishedIsPopped ==
    \A i \in Index : head = i ~> tail = i

=============================================================================
