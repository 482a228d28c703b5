--------------------------- MODULE OrderLifecycle ---------------------------
(***************************************************************************)
(* OrderLifecycleEngine (src/execution/order_lifecycle.cpp): the live      *)
(* orders of one OUCH session, keyed by user_ref_num.                      *)
(*                                                                         *)
(* Of a message and of a LiveOrder only what the engine decides on or      *)
(* computes with is kept: the reference numbers, the quantities, the price *)
(* and the symbol. well_formed stands for the ASCII and appendage-length   *)
(* tests of the message's text fields.                                     *)
(***************************************************************************)
EXTENDS OuchRules

CONSTANT Absent   \* the value of live_orders at a ref that is not live

EnterOrderMessage ==
    [user_ref_num : UserRefNum, quantity : Quantity, price : Price4,
     symbol : Symbol, well_formed : BOOLEAN]

ReplaceOrderMessage ==
    [orig_user_ref_num : UserRefNum, user_ref_num : UserRefNum,
     quantity : Quantity, price : Price4, well_formed : BOOLEAN]

CancelOrderMessage ==
    [user_ref_num : UserRefNum, quantity : Quantity, well_formed : BOOLEAN]

LiveOrder ==
    [original_quantity : Quantity, leaves_quantity : Quantity,
     price : Price4, symbol : Symbol]

ASSUME AbsentAssumption == Absent \notin LiveOrder

VARIABLES
    live_orders,           \* live_orders_
    highest_user_ref_num,  \* highest_user_ref_num_
    used,                  \* history: refs accepted since the last clear
    open                   \* history: open quantity per ref, from the results

lifecycle == <<live_orders, highest_user_ref_num>>

lvars == <<live_orders, highest_user_ref_num, used, open>>

-----------------------------------------------------------------------------
is_valid_enter_order_message(m) ==
    /\ is_valid_user_ref_num(m.user_ref_num)
    /\ is_valid_enter_or_replace_quantity(m.quantity)
    /\ is_valid_price4(m.price)
    /\ m.well_formed

is_valid_replace_order_message(m) ==
    /\ is_valid_user_ref_num(m.orig_user_ref_num)
    /\ is_valid_user_ref_num(m.user_ref_num)
    /\ m.orig_user_ref_num # m.user_ref_num
    /\ is_valid_enter_or_replace_quantity(m.quantity)
    /\ is_valid_price4(m.price)
    /\ m.well_formed

is_valid_cancel_order_message(m) ==
    /\ is_valid_user_ref_num(m.user_ref_num)
    /\ is_valid_cancel_quantity(m.quantity)
    /\ m.well_formed

contains(ref) == live_orders[ref] # Absent

is_stale_user_ref(ref) == ref <= highest_user_ref_num

Highest(ref) ==
    IF ref > highest_user_ref_num THEN ref ELSE highest_user_ref_num

-----------------------------------------------------------------------------
Result(status, reason, ref, previous, decrement, leaves) ==
    [status |-> status, reject_reason |-> reason, user_ref_num |-> ref,
     previous_user_ref_num |-> previous, decrement_quantity |-> decrement,
     leaves_quantity |-> leaves]

Reject(ref, reason) == Result("rejected", reason, ref, 0, 0, 0)

LifecycleInit ==
    /\ live_orders = [ref \in UserRefNum |-> Absent]
    /\ highest_user_ref_num = 0
    /\ used = {}
    /\ open = [ref \in UserRefNum |-> 0]

\* What a client that sees only the results keeps: an accepted order opens its
\* leaves, a replacement closes the previous order and opens the new one, and
\* anything else takes the decrement off.
Reported(r) ==
    [ref \in UserRefNum |->
        IF r.status \in {"accepted", "replaced"} /\ ref = r.user_ref_num
        THEN r.leaves_quantity
        ELSE IF (r.status = "replaced" /\ ref = r.previous_user_ref_num)
                \/ (r.status \notin {"accepted", "replaced"} /\ ref = r.user_ref_num)
        THEN open[ref] - r.decrement_quantity
        ELSE open[ref]]

\* The call returns r, which the history variables follow.
Return(r) ==
    /\ open' = Reported(r)
    /\ used' = IF r.status \in {"accepted", "replaced"}
               THEN used \cup {r.user_ref_num} ELSE used

-----------------------------------------------------------------------------
\* The reason enter and replace give for a message that is not valid.
InvalidReason(m) ==
    IF ~is_valid_enter_or_replace_quantity(m.quantity) THEN "invalid_quantity"
    ELSE IF ~is_valid_price4(m.price) THEN "invalid_price"
    ELSE "invalid_state_transition"

EnterRejectReason(m) ==
    IF ~is_valid_enter_order_message(m) THEN InvalidReason(m)
    ELSE IF contains(m.user_ref_num) THEN "duplicate_user_ref_num"
    ELSE IF is_stale_user_ref(m.user_ref_num) THEN "stale_user_ref_num"
    ELSE "none"

ReplaceRejectReason(m) ==
    IF ~is_valid_replace_order_message(m) THEN InvalidReason(m)
    ELSE IF ~contains(m.orig_user_ref_num) THEN "unknown_order"
    ELSE IF contains(m.user_ref_num) THEN "duplicate_user_ref_num"
    ELSE IF is_stale_user_ref(m.user_ref_num) THEN "stale_user_ref_num"
    ELSE "none"

NewOrder(quantity, price, symbol) ==
    [original_quantity |-> quantity, leaves_quantity |-> quantity,
     price |-> price, symbol |-> symbol]

Enter(m) ==
    LET reason == EnterRejectReason(m) IN
    IF reason # "none"
    THEN Return(Reject(m.user_ref_num, reason)) /\ UNCHANGED lifecycle
    ELSE /\ live_orders' = [live_orders EXCEPT ![m.user_ref_num] =
                              NewOrder(m.quantity, m.price, m.symbol)]
         /\ highest_user_ref_num' = Highest(m.user_ref_num)
         /\ Return(Result("accepted", "none", m.user_ref_num, 0, 0, m.quantity))

\* Mutant of Replace: the new reference number is not remembered.
ReplaceForgetsRef(m) ==
    LET reason == ReplaceRejectReason(m)
        old == live_orders[m.orig_user_ref_num] IN
    IF reason # "none"
    THEN Return(Reject(m.user_ref_num, reason)) /\ UNCHANGED lifecycle
    ELSE /\ live_orders' = [live_orders EXCEPT
                              ![m.orig_user_ref_num] = Absent,
                              ![m.user_ref_num] =
                                NewOrder(m.quantity, m.price, old.symbol)]
         /\ UNCHANGED highest_user_ref_num
         /\ Return(Result("replaced", "none", m.user_ref_num,
                          m.orig_user_ref_num, old.leaves_quantity, m.quantity))

\* Mutant of Replace: reports the original quantity as decrement.
ReplaceReportsOriginal(m) ==
    LET reason == ReplaceRejectReason(m)
        old == live_orders[m.orig_user_ref_num] IN
    IF reason # "none"
    THEN Return(Reject(m.user_ref_num, reason)) /\ UNCHANGED lifecycle
    ELSE /\ live_orders' = [live_orders EXCEPT
                              ![m.orig_user_ref_num] = Absent,
                              ![m.user_ref_num] =
                                NewOrder(m.quantity, m.price, old.symbol)]
         /\ highest_user_ref_num' = Highest(m.user_ref_num)
         /\ Return(Result("replaced", "none", m.user_ref_num,
                          m.orig_user_ref_num, old.original_quantity, m.quantity))

Replace(m) ==
    LET reason == ReplaceRejectReason(m)
        old == live_orders[m.orig_user_ref_num] IN
    IF reason # "none"
    THEN Return(Reject(m.user_ref_num, reason)) /\ UNCHANGED lifecycle
    ELSE /\ live_orders' = [live_orders EXCEPT
                              ![m.orig_user_ref_num] = Absent,
                              ![m.user_ref_num] =
                                NewOrder(m.quantity, m.price, old.symbol)]
         /\ highest_user_ref_num' = Highest(m.user_ref_num)
         /\ Return(Result("replaced", "none", m.user_ref_num,
                          m.orig_user_ref_num, old.leaves_quantity, m.quantity))

Cancel(m) ==
    LET ref == m.user_ref_num
        leaves == live_orders[ref].leaves_quantity IN
    /\ IF ~is_valid_cancel_order_message(m)
       THEN Return(Reject(ref, "invalid_quantity")) /\ UNCHANGED live_orders
       ELSE IF ~contains(ref)
       THEN Return(Reject(ref, "unknown_order")) /\ UNCHANGED live_orders
       ELSE IF m.quantity = 0 \/ m.quantity >= leaves
       THEN /\ live_orders' = [live_orders EXCEPT ![ref] = Absent]
            /\ Return(Result("canceled", "none", ref, 0, leaves, 0))
       ELSE /\ live_orders' = [live_orders EXCEPT
                                 ![ref].leaves_quantity = leaves - m.quantity]
            /\ Return(Result("partially_canceled", "none", ref, 0, m.quantity,
                             leaves - m.quantity))
    /\ UNCHANGED highest_user_ref_num

\* Mutant of Execute: a filled order stays live.
ExecuteKeepsFilled(ref, quantity) ==
    LET leaves == live_orders[ref].leaves_quantity IN
    /\ IF ~is_valid_enter_or_replace_quantity(quantity) \/ ~contains(ref) \/ quantity > leaves
       THEN UNCHANGED <<live_orders, used, open>>
       ELSE /\ live_orders' = [live_orders EXCEPT ![ref].leaves_quantity = leaves - quantity]
            /\ Return(Result("partially_filled", "none", ref, 0, quantity, leaves - quantity))
    /\ UNCHANGED highest_user_ref_num

Execute(ref, quantity) ==
    LET leaves == live_orders[ref].leaves_quantity IN
    /\ IF ~is_valid_enter_or_replace_quantity(quantity)
       THEN Return(Reject(ref, "invalid_quantity")) /\ UNCHANGED live_orders
       ELSE IF ~contains(ref)
       THEN Return(Reject(ref, "unknown_order")) /\ UNCHANGED live_orders
       ELSE IF quantity > leaves
       THEN Return(Reject(ref, "overfill")) /\ UNCHANGED live_orders
       ELSE IF quantity = leaves
       THEN /\ live_orders' = [live_orders EXCEPT ![ref] = Absent]
            /\ Return(Result("filled", "none", ref, 0, quantity, 0))
       ELSE /\ live_orders' = [live_orders EXCEPT
                                 ![ref].leaves_quantity = leaves - quantity]
            /\ Return(Result("partially_filled", "none", ref, 0, quantity,
                             leaves - quantity))
    /\ UNCHANGED highest_user_ref_num

\* clear starts a new session: no order, and reference numbers begin again.
Clear ==
    /\ live_orders' = [ref \in UserRefNum |-> Absent]
    /\ highest_user_ref_num' = 0
    /\ used' = {}
    /\ open' = [ref \in UserRefNum |-> 0]

LifecycleNext ==
    \/ \E m \in EnterOrderMessage : Enter(m)
    \/ \E m \in ReplaceOrderMessage : Replace(m)
    \/ \E m \in CancelOrderMessage : Cancel(m)
    \/ \E ref \in UserRefNum, quantity \in Quantity : Execute(ref, quantity)
    \/ Clear

LifecycleSpec == LifecycleInit /\ [][LifecycleNext]_lvars

-----------------------------------------------------------------------------
\* Type correctness.
LifecycleTypeOK ==
    /\ live_orders \in [UserRefNum -> LiveOrder \cup {Absent}]
    /\ highest_user_ref_num \in UserRefNum
    /\ used \subseteq UserRefNum
    /\ open \in [UserRefNum -> Quantity]

\* A live order has something left, never more than it was entered with, and a
\* reference number this session has accepted. enter, replace, cancel and
\* execute keep it so in every order of calls: no live order of quantity 0 stays
\* behind a last fill or cancel, none is found under a number not yet used.
LiveOrdersSound ==
    \A ref \in UserRefNum : contains(ref) =>
        /\ live_orders[ref].leaves_quantity \in 1 .. live_orders[ref].original_quantity
        /\ live_orders[ref].original_quantity < QuantityLimit
        /\ ref \in used

\* The results tell the whole story: a client that adds up leaves_quantity and
\* decrement_quantity of the results alone has, for every order and at every
\* moment, the open quantity the engine holds, 0 for an order that is gone.
ReportsReconcile ==
    \A ref \in UserRefNum :
        open[ref] = IF contains(ref) THEN live_orders[ref].leaves_quantity ELSE 0

\* A used reference number keeps its order, no larger than it was, or has none.
RefsNotReopened ==
    \A ref \in used : live_orders'[ref] # Absent =>
        /\ contains(ref)
        /\ live_orders'[ref].leaves_quantity <= live_orders[ref].leaves_quantity

\* A reference number opens one order per session: once accepted by enter or
\* replace, no later call brings its order back after it was filled, canceled or
\* replaced, and none makes it larger while it is live.
NoRefReuse == [][RefsNotReopened]_lvars

\* core/order_event.hpp, CancelOrderCommand: the cancel quantity is the new
\* intended total order size, so a cancel that leaves the order live leaves it
\* no larger than the quantity of the message.
CancelSetsIntendedSize ==
    [][\A m \in CancelOrderMessage :
         (Cancel(m) /\ contains(m.user_ref_num) /\ live_orders' # live_orders
            /\ live_orders'[m.user_ref_num] # Absent)
           => live_orders'[m.user_ref_num].leaves_quantity <= m.quantity]_lvars

=============================================================================
