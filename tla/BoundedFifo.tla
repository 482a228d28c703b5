---------------------------- MODULE BoundedFifo ----------------------------
(***************************************************************************)
(* What a single-producer single-consumer ring promises its two callers:   *)
(* a bounded first-in first-out queue whose calls take effect atomically   *)
(* at some instant between call and return.                                *)
(*                                                                         *)
(*   queue     the items pushed and not yet popped, oldest first           *)
(*   pushing   the item of the push in progress, or NoItem                 *)
(*   popping   whether a pop is in progress                                *)
(*   pushed    the result of the last push: TRUE stored, FALSE full        *)
(*   popped    the item of the last pop, or NoItem if it found none        *)
(***************************************************************************)
EXTENDS Naturals, Sequences

CONSTANTS Item, NoItem, Capacity

VARIABLES queue, pushing, popping, pushed, popped

vars == <<queue, pushing, popping, pushed, popped>>

Init ==
    /\ queue = <<>>
    /\ pushing = NoItem
    /\ popping = FALSE
    /\ pushed = TRUE
    /\ popped = NoItem

CallPush(item) ==
    /\ pushing = NoItem
    /\ pushing' = item
    /\ UNCHANGED <<queue, popping, pushed, popped>>

Enqueue ==
    /\ pushing # NoItem
    /\ Len(queue) < Capacity
    /\ queue' = Append(queue, pushing)
    /\ pushing' = NoItem
    /\ pushed' = TRUE
    /\ UNCHANGED <<popping, popped>>

RefuseFull ==
    /\ pushing # NoItem
    /\ Len(queue) = Capacity
    /\ pushing' = NoItem
    /\ pushed' = FALSE
    /\ UNCHANGED <<queue, popping, popped>>

CallPop ==
    /\ ~popping
    /\ popping' = TRUE
    /\ UNCHANGED <<queue, pushing, pushed, popped>>

Dequeue ==
    /\ popping
    /\ queue # <<>>
    /\ popped' = Head(queue)
    /\ queue' = Tail(queue)
    /\ popping' = FALSE
    /\ UNCHANGED <<pushing, pushed>>

FindEmpty ==
    /\ popping
    /\ queue = <<>>
    /\ popped' = NoItem
    /\ popping' = FALSE
    /\ UNCHANGED <<queue, pushing, pushed>>

Next ==
    \/ \E item \in Item : CallPush(item)
    \/ Enqueue
    \/ RefuseFull
    \/ CallPop
    \/ Dequeue
    \/ FindEmpty

Spec == Init /\ [][Next]_vars

=============================================================================
