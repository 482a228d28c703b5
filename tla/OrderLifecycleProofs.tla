------------------------ MODULE OrderLifecycleProofs ------------------------
(***************************************************************************)
(* OrderLifecycle is correct for every number of references, every         *)
(* quantity limit and every set of prices and symbols. The strengthening   *)
(* the invariants need is UsedAreStale: highest_user_ref_num_ covers every *)
(* number the session has accepted, so is_stale_user_ref refuses them all. *)
(***************************************************************************)
EXTENDS OrderLifecycle, TLAPS

UsedAreStale == \A ref \in used : ref <= highest_user_ref_num

IInv ==
    /\ LifecycleTypeOK
    /\ LiveOrdersSound
    /\ ReportsReconcile
    /\ UsedAreStale

\* Facts about the constants in the form the steps below use.
LEMMA Constants ==
    /\ QuantityLimit \in Nat \ {0}
    /\ UserRefNum \subseteq Nat
    /\ 0 \in UserRefNum
    /\ \A q \in Quantity : q \in Nat
    /\ \A q \in Nat : q <= QuantityLimit => q \in Quantity
    /\ \A o \in LiveOrder : o # Absent
  BY OuchAssumption, AbsentAssumption DEF UserRefNum, Quantity

\* A fresh session satisfies the invariant.
LEMMA InitIInv == LifecycleInit => IInv
<1> SUFFICES ASSUME LifecycleInit PROVE IInv
  OBVIOUS
<1> USE DEF LifecycleInit
<1>1. LifecycleTypeOK
  BY Constants DEF LifecycleTypeOK
<1>2. LiveOrdersSound
  BY DEF LiveOrdersSound, contains
<1>3. ReportsReconcile
  BY DEF ReportsReconcile, contains
<1>4. UsedAreStale
  BY DEF UsedAreStale
<1> QED
  BY <1>1, <1>2, <1>3, <1>4 DEF IInv

\* A rejected call leaves what a client adds up as it was.
LEMMA RejectKeeps ==
    ASSUME IInv, NEW ref \in UserRefNum, NEW reason, Return(Reject(ref, reason))
    PROVE  open' = open /\ used' = used
<1>1. open \in [UserRefNum -> Nat]
  BY Constants DEF IInv, LifecycleTypeOK
<1>2. \A r \in UserRefNum : open[r] - 0 = open[r]
  BY <1>1
<1>3. Reported(Reject(ref, reason)) = [r \in UserRefNum |-> open[r]]
  BY <1>2 DEF Reported, Reject, Result
<1> QED
  BY <1>1, <1>3 DEF Return, Reject, Result

\* A call that is rejected, or changes nothing, keeps the invariant.
LEMMA UnchangedKeeps ==
    ASSUME IInv, UNCHANGED lvars
    PROVE  IInv'
  BY DEF IInv, lvars, LifecycleTypeOK, LiveOrdersSound, ReportsReconcile,
         UsedAreStale, contains

\* remember_user_ref keeps highest_user_ref_num_ above every number used.
LEMMA RememberKeeps ==
    ASSUME IInv, NEW ref \in UserRefNum,
           highest_user_ref_num' = Highest(ref), used' = used \cup {ref}
    PROVE  UsedAreStale'
<1>1. /\ ref \in Nat /\ highest_user_ref_num \in Nat
      /\ \A r \in used : r \in Nat /\ r <= highest_user_ref_num
  BY Constants DEF IInv, LifecycleTypeOK, UsedAreStale
<1>2. ref <= Highest(ref) /\ highest_user_ref_num <= Highest(ref) /\ Highest(ref) \in Nat
  BY <1>1 DEF Highest
<1>3. \A r \in used \cup {ref} : r <= Highest(ref)
  BY <1>1, <1>2
<1> QED
  BY <1>3 DEF UsedAreStale

\* A new order at a reference number not used before keeps the invariant: enter,
\* and the second half of replace.
LEMMA EnterKeeps ==
    ASSUME IInv, NEW m \in EnterOrderMessage, Enter(m)
    PROVE  IInv'
<1> DEFINE ref == m.user_ref_num
           order == NewOrder(m.quantity, m.price, m.symbol)
<1>0. /\ ref \in UserRefNum /\ m.quantity \in Quantity
      /\ m.price \in Price4 /\ m.symbol \in Symbol
  BY DEF EnterOrderMessage
<1>1. CASE EnterRejectReason(m) # "none"
  BY <1>0, <1>1, RejectKeeps, UnchangedKeeps DEF Enter, lifecycle, lvars
<1>2. CASE EnterRejectReason(m) = "none"
  <2>1. /\ live_orders' = [live_orders EXCEPT ![ref] = order]
        /\ highest_user_ref_num' = Highest(ref)
        /\ Return(Result("accepted", "none", ref, 0, 0, m.quantity))
    BY <1>2 DEF Enter
  <2>2. /\ is_valid_enter_or_replace_quantity(m.quantity)
        /\ ~contains(ref)
        /\ ~is_stale_user_ref(ref)
    BY <1>2 DEF EnterRejectReason, InvalidReason, is_valid_enter_order_message
  <2>3. order \in LiveOrder
    BY <1>0 DEF LiveOrder, NewOrder
  <2>4. /\ open' = [r \in UserRefNum |->
                      IF r = ref THEN m.quantity ELSE open[r]]
        /\ used' = used \cup {ref}
    BY <2>1 DEF Return, Reported, Result
  <2>5. LifecycleTypeOK'
    BY <1>0, <2>1, <2>3, <2>4 DEF IInv, LifecycleTypeOK, Highest
  <2>6. LiveOrdersSound'
    BY <1>0, <2>1, <2>2, <2>3, <2>4, Constants
    DEF IInv, LifecycleTypeOK, LiveOrdersSound, contains, NewOrder,
        is_valid_enter_or_replace_quantity
  <2>7. ReportsReconcile'
    BY <1>0, <2>1, <2>3, <2>4, Constants
    DEF IInv, LifecycleTypeOK, ReportsReconcile, contains, NewOrder
  <2>8. UsedAreStale'
    BY <1>0, <2>1, <2>4, RememberKeeps
  <2> QED
    BY <2>5, <2>6, <2>7, <2>8 DEF IInv
<1> QED
  BY <1>1, <1>2

\* replace closes one order and opens the other under a new number.
LEMMA ReplaceKeeps ==
    ASSUME IInv, NEW m \in ReplaceOrderMessage, Replace(m)
    PROVE  IInv'
<1> DEFINE ref == m.user_ref_num
           orig == m.orig_user_ref_num
           old == live_orders[orig]
           order == NewOrder(m.quantity, m.price, old.symbol)
<1>0. /\ ref \in UserRefNum /\ orig \in UserRefNum /\ m.quantity \in Quantity
      /\ m.price \in Price4
  BY DEF ReplaceOrderMessage
<1>1. CASE ReplaceRejectReason(m) # "none"
  BY <1>0, <1>1, RejectKeeps, UnchangedKeeps DEF Replace, lifecycle, lvars
<1>2. CASE ReplaceRejectReason(m) = "none"
  <2>1. /\ live_orders' = [live_orders EXCEPT ![orig] = Absent, ![ref] = order]
        /\ highest_user_ref_num' = Highest(ref)
        /\ Return(Result("replaced", "none", ref, orig, old.leaves_quantity,
                         m.quantity))
    BY <1>2 DEF Replace
  <2>2. /\ is_valid_enter_or_replace_quantity(m.quantity)
        /\ orig # ref
        /\ contains(orig)
        /\ ~contains(ref)
        /\ ~is_stale_user_ref(ref)
    BY <1>2 DEF ReplaceRejectReason, InvalidReason, is_valid_replace_order_message
  <2>3. old \in LiveOrder /\ order \in LiveOrder
    BY <1>0, <2>2 DEF IInv, LifecycleTypeOK, contains, LiveOrder, NewOrder
  <2>4. /\ open' = [r \in UserRefNum |->
                      IF r = ref THEN m.quantity
                      ELSE IF r = orig THEN open[r] - old.leaves_quantity
                      ELSE open[r]]
        /\ used' = used \cup {ref}
    BY <2>1 DEF Return, Reported, Result
  <2>5. open[orig] - old.leaves_quantity = 0
    BY <1>0, <2>2, <2>3, Constants DEF IInv, ReportsReconcile, LiveOrder
  <2>6. LifecycleTypeOK'
    BY <1>0, <2>1, <2>3, <2>4, <2>5, OuchAssumption
    DEF IInv, LifecycleTypeOK, Highest, Quantity
  <2>7. LiveOrdersSound'
    BY <1>0, <2>1, <2>2, <2>3, <2>4, Constants
    DEF IInv, LifecycleTypeOK, LiveOrdersSound, contains, NewOrder,
        is_valid_enter_or_replace_quantity
  <2>8. ReportsReconcile'
    BY <1>0, <2>1, <2>2, <2>3, <2>4, <2>5, Constants
    DEF IInv, LifecycleTypeOK, ReportsReconcile, contains, NewOrder
  <2>9. UsedAreStale'
    BY <1>0, <2>1, <2>4, RememberKeeps
  <2> QED
    BY <2>6, <2>7, <2>8, <2>9 DEF IInv
<1> QED
  BY <1>1, <1>2

\* A live order is left with what a cancel or a fill did not take: less than
\* before and more than nothing.
LEMMA DecrementKeeps ==
    ASSUME IInv, NEW ref \in UserRefNum, contains(ref), NEW quantity \in Nat,
           quantity > 0, quantity < live_orders[ref].leaves_quantity,
           NEW status \in {"partially_canceled", "partially_filled"},
           live_orders' = [live_orders EXCEPT
                ![ref].leaves_quantity = live_orders[ref].leaves_quantity - quantity],
           Return(Result(status, "none", ref, 0, quantity,
                         live_orders[ref].leaves_quantity - quantity)),
           UNCHANGED highest_user_ref_num
    PROVE  IInv'
<1> DEFINE order == live_orders[ref]
           less == [order EXCEPT !.leaves_quantity = order.leaves_quantity - quantity]
<1>1. order \in LiveOrder
  BY DEF IInv, LifecycleTypeOK, contains
<1>2. /\ order.leaves_quantity \in 1 .. order.original_quantity
      /\ order.original_quantity \in Quantity
  BY <1>1 DEF IInv, LiveOrdersSound, LiveOrder
<1>3. order.leaves_quantity - quantity \in 1 .. order.original_quantity
  BY <1>2, Constants
<1>4. order.leaves_quantity - quantity \in Quantity
  BY <1>2, <1>3, Constants DEF Quantity
<1>5. /\ less \in LiveOrder
      /\ less.leaves_quantity = order.leaves_quantity - quantity
      /\ less.original_quantity = order.original_quantity
  BY <1>1, <1>4 DEF LiveOrder
<1>6. live_orders' = [live_orders EXCEPT ![ref] = less]
  OBVIOUS
<1>7. /\ open' = [r \in UserRefNum |-> IF r = ref THEN open[r] - quantity ELSE open[r]]
      /\ used' = used
  BY DEF Return, Reported, Result
<1>8. open[ref] - quantity = less.leaves_quantity
  BY <1>5 DEF IInv, ReportsReconcile
<1> HIDE DEF order, less
<1>9. LifecycleTypeOK'
  BY <1>4, <1>5, <1>6, <1>7, <1>8 DEF IInv, LifecycleTypeOK
<1>10. LiveOrdersSound'
  BY <1>3, <1>5, <1>6, <1>7, <1>1 DEF IInv, LifecycleTypeOK, LiveOrdersSound, contains, order
<1>11. ReportsReconcile'
  BY <1>5, <1>6, <1>7, <1>8, Constants DEF IInv, LifecycleTypeOK, ReportsReconcile, contains
<1>12. UsedAreStale'
  BY <1>7 DEF IInv, UsedAreStale
<1> QED
  BY <1>9, <1>10, <1>11, <1>12 DEF IInv

\* An order that is canceled or filled as a whole is gone, and the report says so.
LEMMA CloseKeeps ==
    ASSUME IInv, NEW ref \in UserRefNum, contains(ref),
           NEW status \in {"canceled", "filled"},
           live_orders' = [live_orders EXCEPT ![ref] = Absent],
           Return(Result(status, "none", ref, 0, live_orders[ref].leaves_quantity, 0)),
           UNCHANGED highest_user_ref_num
    PROVE  IInv'
<1>1. live_orders[ref] \in LiveOrder
  BY DEF IInv, LifecycleTypeOK, contains
<1>2. open[ref] - live_orders[ref].leaves_quantity = 0
  BY <1>1, Constants DEF IInv, ReportsReconcile, LiveOrder
<1>3. /\ open' = [r \in UserRefNum |-> IF r = ref THEN 0 ELSE open[r]]
      /\ used' = used
  BY <1>2 DEF Return, Reported, Result
<1>4. LifecycleTypeOK'
  BY <1>3, Constants DEF IInv, LifecycleTypeOK
<1>5. LiveOrdersSound'
  BY <1>3 DEF IInv, LifecycleTypeOK, LiveOrdersSound, contains
<1>6. ReportsReconcile'
  BY <1>3 DEF IInv, LifecycleTypeOK, ReportsReconcile, contains
<1>7. UsedAreStale'
  BY <1>3 DEF IInv, UsedAreStale
<1> QED
  BY <1>4, <1>5, <1>6, <1>7 DEF IInv

\* cancel: refused, the whole order, or a part of it.
LEMMA CancelKeeps ==
    ASSUME IInv, NEW m \in CancelOrderMessage, Cancel(m)
    PROVE  IInv'
<1> DEFINE ref == m.user_ref_num
           leaves == live_orders[ref].leaves_quantity
<1>0. ref \in UserRefNum /\ m.quantity \in Quantity /\ m.quantity \in Nat
  BY Constants DEF CancelOrderMessage
<1>1. CASE ~is_valid_cancel_order_message(m) \/ ~contains(ref)
  <2>1. \E reason : Return(Reject(ref, reason))
    BY <1>1 DEF Cancel
  <2> QED
    BY <1>0, <1>1, <2>1, RejectKeeps, UnchangedKeeps DEF Cancel, lvars
<1>2. CASE is_valid_cancel_order_message(m) /\ contains(ref)
           /\ (m.quantity = 0 \/ m.quantity >= leaves)
  BY <1>0, <1>2, CloseKeeps DEF Cancel
<1>3. CASE is_valid_cancel_order_message(m) /\ contains(ref)
           /\ ~(m.quantity = 0 \/ m.quantity >= leaves)
  <2>1. leaves \in Nat
    BY <1>0, <1>3, Constants DEF IInv, LifecycleTypeOK, contains, LiveOrder
  <2>2. m.quantity > 0 /\ m.quantity < leaves
    BY <1>0, <1>3, <2>1
  <2> QED
    BY <1>0, <1>3, <2>2, DecrementKeeps DEF Cancel
<1> QED
  BY <1>1, <1>2, <1>3

\* execute: refused, the last fill, or a partial one.
LEMMA ExecuteKeeps ==
    ASSUME IInv, NEW ref \in UserRefNum, NEW quantity \in Quantity,
           Execute(ref, quantity)
    PROVE  IInv'
<1> DEFINE leaves == live_orders[ref].leaves_quantity
           refused == ~is_valid_enter_or_replace_quantity(quantity)
                        \/ ~contains(ref) \/ quantity > leaves
<1>1. CASE refused
  <2>1. \E reason : Return(Reject(ref, reason))
    BY <1>1 DEF Execute
  <2>2. UNCHANGED <<live_orders, highest_user_ref_num>>
    BY <1>1 DEF Execute
  <2> QED
    BY <2>1, <2>2, RejectKeeps, UnchangedKeeps DEF lvars
<1>2. CASE ~refused /\ quantity = leaves
  BY <1>2, CloseKeeps DEF Execute
<1>3. CASE ~refused /\ quantity # leaves
  <2>1. leaves \in Nat /\ quantity \in Nat
    BY <1>3, Constants DEF IInv, LifecycleTypeOK, contains, LiveOrder
  <2>2. quantity > 0 /\ quantity < leaves
    BY <1>3, <2>1 DEF is_valid_enter_or_replace_quantity
  <2> QED
    BY <1>3, <2>1, <2>2, DecrementKeeps DEF Execute
<1> QED
  BY <1>1, <1>2, <1>3

\* Every call keeps the invariant.
LEMMA StepIInv == IInv /\ [LifecycleNext]_lvars => IInv'
<1> SUFFICES ASSUME IInv, [LifecycleNext]_lvars PROVE IInv'
  OBVIOUS
<1>1. CASE \E m \in EnterOrderMessage : Enter(m)
  BY <1>1, EnterKeeps
<1>2. CASE \E m \in ReplaceOrderMessage : Replace(m)
  BY <1>2, ReplaceKeeps
<1>3. CASE \E m \in CancelOrderMessage : Cancel(m)
  BY <1>3, CancelKeeps
<1>4. CASE \E ref \in UserRefNum, quantity \in Quantity : Execute(ref, quantity)
  BY <1>4, ExecuteKeeps
<1>5. CASE Clear
  <2>1. LifecycleInit'
    BY <1>5 DEF Clear, LifecycleInit
  <2>2. (LifecycleInit => IInv)'
    BY InitIInv, PTL
  <2> QED
    BY <2>1, <2>2
<1>6. CASE UNCHANGED lvars
  BY <1>6, UnchangedKeeps
<1> QED
  BY <1>1, <1>2, <1>3, <1>4, <1>5, <1>6 DEF LifecycleNext

\* The inductive invariant holds in every session.
THEOREM Invariant == LifecycleSpec => []IInv
  BY InitIInv, StepIInv, PTL DEF LifecycleSpec

\* Type correctness of the lifecycle engine.
THEOREM TypeCorrect == LifecycleSpec => []LifecycleTypeOK
<1>1. IInv => LifecycleTypeOK
  BY DEF IInv
<1> QED
  BY <1>1, Invariant, PTL

\* No sequence of enter, replace, cancel and execute leaves an order with nothing
\* left, with more than it was entered with, or under a number not accepted.
THEOREM OrdersStaySound == LifecycleSpec => []LiveOrdersSound
<1>1. IInv => LiveOrdersSound
  BY DEF IInv
<1> QED
  BY <1>1, Invariant, PTL

\* The results of the calls alone determine the open quantity of every order.
THEOREM ResultsReconcile == LifecycleSpec => []ReportsReconcile
<1>1. IInv => ReportsReconcile
  BY DEF IInv
<1> QED
  BY <1>1, Invariant, PTL

\* A call that touches no used reference number reopens none.
LEMMA UsedUntouched ==
    ASSUME IInv, \A ref \in used : live_orders'[ref] = live_orders[ref] \/ live_orders'[ref] = Absent
    PROVE  RefsNotReopened
<1> SUFFICES ASSUME NEW ref \in used, live_orders'[ref] # Absent
             PROVE  /\ contains(ref)
                    /\ live_orders'[ref].leaves_quantity <= live_orders[ref].leaves_quantity
  BY DEF RefsNotReopened
<1>1. live_orders'[ref] = live_orders[ref] /\ contains(ref) /\ ref \in UserRefNum
  BY DEF contains, IInv, LifecycleTypeOK
<1>2. live_orders[ref].leaves_quantity \in Nat
  BY <1>1, Constants DEF IInv, LifecycleTypeOK, LiveOrder, contains
<1> QED
  BY <1>1, <1>2

\* A partial cancel or fill leaves less than there was.
LEMMA DecrementShrinks ==
    ASSUME IInv, NEW ref \in UserRefNum, contains(ref), NEW quantity \in Nat,
           live_orders' = [live_orders EXCEPT
                ![ref].leaves_quantity = live_orders[ref].leaves_quantity - quantity]
    PROVE  RefsNotReopened
<1> SUFFICES ASSUME NEW r \in used, live_orders'[r] # Absent
             PROVE  /\ contains(r)
                    /\ live_orders'[r].leaves_quantity <= live_orders[r].leaves_quantity
  BY DEF RefsNotReopened
<1>1. r \in UserRefNum /\ live_orders[ref] \in LiveOrder
  BY DEF contains, IInv, LifecycleTypeOK
<1>2. CASE r # ref
  <2>1. live_orders'[r] = live_orders[r] /\ live_orders[r] \in LiveOrder
    BY <1>1, <1>2 DEF IInv, LifecycleTypeOK
  <2> QED
    BY <2>1, Constants DEF contains, LiveOrder
<1>3. CASE r = ref
  <2>1. live_orders'[ref] = [live_orders[ref] EXCEPT
             !.leaves_quantity = live_orders[ref].leaves_quantity - quantity]
    BY DEF IInv, LifecycleTypeOK
  <2>2. live_orders'[ref].leaves_quantity = live_orders[ref].leaves_quantity - quantity
    BY <1>1, <2>1 DEF LiveOrder
  <2> QED
    BY <1>1, <1>3, <2>2, Constants DEF LiveOrder
<1> QED
  BY <1>2, <1>3

\* A number enter or replace accepts was never used before.
LEMMA FreshNotUsed ==
    ASSUME IInv, NEW ref \in UserRefNum, ~is_stale_user_ref(ref)
    PROVE  ref \notin used
  BY Constants DEF IInv, UsedAreStale, is_stale_user_ref

\* No call reopens an order or makes it larger.
LEMMA StepNoRefReuse == IInv /\ [LifecycleNext]_lvars => [RefsNotReopened]_lvars
<1> SUFFICES ASSUME IInv, LifecycleNext PROVE RefsNotReopened
  OBVIOUS
<1>0. DOMAIN live_orders = UserRefNum /\ used \subseteq UserRefNum
  BY DEF IInv, LifecycleTypeOK
<1>1. CASE \E m \in EnterOrderMessage : Enter(m)
  <2> PICK m \in EnterOrderMessage : Enter(m)
    BY <1>1
  <2>1. m.user_ref_num \in UserRefNum
    BY DEF EnterOrderMessage
  <2>2. CASE EnterRejectReason(m) # "none"
    BY <2>2, UsedUntouched DEF Enter, lifecycle
  <2>3. CASE EnterRejectReason(m) = "none"
    <3>1. m.user_ref_num \notin used
      BY <2>1, <2>3, FreshNotUsed DEF EnterRejectReason, InvalidReason
    <3>2. live_orders' = [live_orders EXCEPT ![m.user_ref_num] =
                            NewOrder(m.quantity, m.price, m.symbol)]
      BY <2>3 DEF Enter
    <3> QED
      BY <1>0, <3>1, <3>2, UsedUntouched
  <2> QED
    BY <2>2, <2>3
<1>2. CASE \E m \in ReplaceOrderMessage : Replace(m)
  <2> PICK m \in ReplaceOrderMessage : Replace(m)
    BY <1>2
  <2>1. m.user_ref_num \in UserRefNum
    BY DEF ReplaceOrderMessage
  <2>2. CASE ReplaceRejectReason(m) # "none"
    BY <2>2, UsedUntouched DEF Replace, lifecycle
  <2>3. CASE ReplaceRejectReason(m) = "none"
    <3>1. m.user_ref_num \notin used
      BY <2>1, <2>3, FreshNotUsed DEF ReplaceRejectReason, InvalidReason
    <3>2. live_orders' = [live_orders EXCEPT
                ![m.orig_user_ref_num] = Absent,
                ![m.user_ref_num] =
                    NewOrder(m.quantity, m.price, live_orders[m.orig_user_ref_num].symbol)]
      BY <2>3 DEF Replace
    <3> QED
      BY <1>0, <3>1, <3>2, UsedUntouched
  <2> QED
    BY <2>2, <2>3
<1>3. CASE \E m \in CancelOrderMessage : Cancel(m)
  <2> PICK m \in CancelOrderMessage : Cancel(m)
    BY <1>3
  <2>1. m.user_ref_num \in UserRefNum /\ m.quantity \in Nat
    BY Constants DEF CancelOrderMessage
  <2>2. CASE live_orders' = live_orders
             \/ live_orders' = [live_orders EXCEPT ![m.user_ref_num] = Absent]
    BY <1>0, <2>2, UsedUntouched
  <2>3. CASE contains(m.user_ref_num)
             /\ live_orders' = [live_orders EXCEPT ![m.user_ref_num].leaves_quantity =
                                  live_orders[m.user_ref_num].leaves_quantity - m.quantity]
    BY <2>1, <2>3, DecrementShrinks
  <2> QED
    BY <2>2, <2>3 DEF Cancel
<1>4. CASE \E ref \in UserRefNum, quantity \in Quantity : Execute(ref, quantity)
  <2> PICK ref \in UserRefNum, quantity \in Quantity : Execute(ref, quantity)
    BY <1>4
  <2>1. quantity \in Nat
    BY Constants
  <2>2. CASE live_orders' = live_orders
             \/ live_orders' = [live_orders EXCEPT ![ref] = Absent]
    BY <1>0, <2>2, UsedUntouched
  <2>3. CASE contains(ref)
             /\ live_orders' = [live_orders EXCEPT ![ref].leaves_quantity =
                                  live_orders[ref].leaves_quantity - quantity]
    BY <2>1, <2>3, DecrementShrinks
  <2> QED
    BY <2>2, <2>3 DEF Execute
<1>5. CASE Clear
  BY <1>0, <1>5, UsedUntouched DEF Clear
<1> QED
  BY <1>1, <1>2, <1>3, <1>4, <1>5 DEF LifecycleNext

\* is_stale_user_ref is enough: no session ever reopens a reference number.
THEOREM RefsOpenOnce == LifecycleSpec => NoRefReuse
  BY Invariant, StepNoRefReuse, PTL DEF LifecycleSpec, NoRefReuse

=============================================================================
