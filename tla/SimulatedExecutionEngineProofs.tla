------------------- MODULE SimulatedExecutionEngineProofs -------------------
(***************************************************************************)
(* The simulated engine for every set of limits, prices and references.    *)
(* Each of its steps is a step of the lifecycle engine or leaves it alone, *)
(* so what OrderLifecycleProofs shows holds behind the risk checks too;    *)
(* and an order that opens has passed them.                                *)
(***************************************************************************)
EXTENDS SimulatedExecutionEngine, OrderLifecycleProofs

\* A step of the engine is a step of the lifecycle engine, or none.
LEMMA StepLifecycle == [Next]_vars => [LifecycleNext]_lvars
<1> SUFFICES ASSUME [Next]_vars PROVE [LifecycleNext]_lvars
  OBVIOUS
<1>1. ASSUME NEW m \in EnterOrderMessage, SubmitEnter(m) PROVE [LifecycleNext]_lvars
  BY <1>1 DEF SubmitEnter, from_risk_reject, LifecycleNext
<1>2. ASSUME NEW m \in ReplaceOrderMessage, SubmitReplace(m) PROVE [LifecycleNext]_lvars
  BY <1>2 DEF SubmitReplace, from_risk_reject, LifecycleNext
<1>3. ASSUME NEW m \in CancelOrderMessage, SubmitCancel(m) PROVE [LifecycleNext]_lvars
  BY <1>3 DEF SubmitCancel, from_risk_reject, LifecycleNext
<1>4. ASSUME NEW ref \in UserRefNum, NEW quantity \in Quantity, EngineExecute(ref, quantity)
      PROVE  [LifecycleNext]_lvars
  BY <1>4 DEF EngineExecute, LifecycleNext
<1>5. CASE EngineClear
  BY <1>5 DEF EngineClear, LifecycleNext
<1>6. CASE ControlRisk
  BY <1>6 DEF ControlRisk
<1>7. CASE UNCHANGED vars
  BY <1>7 DEF vars, lvars
<1> QED
  BY <1>1, <1>2, <1>3, <1>4, <1>5, <1>6, <1>7 DEF Next

\* The engine is an order lifecycle engine to whoever sees its orders only.
THEOREM EngineImplementsLifecycle == Spec => LifecycleSpec
<1>1. Init => LifecycleInit
  BY DEF Init
<1> QED
  BY <1>1, StepLifecycle, PTL DEF Spec, LifecycleSpec

\* Behind the risk checks, too, the results tell the whole story.
THEOREM EngineReconciles == Spec => []ReportsReconcile
  BY EngineImplementsLifecycle, ResultsReconcile, PTL

-----------------------------------------------------------------------------
\* The setters keep the risk state a risk state.
LEMMA ControlType ==
    ASSUME risk \in RiskState, ControlRisk
    PROVE  risk' \in RiskState
<1>1. ASSUME NEW limits \in Limits, risk' = set_limits(risk, limits)
      PROVE  risk' \in RiskState
  BY <1>1, LimitsAssumption DEF set_limits, RiskState
<1>2. ASSUME NEW flag \in BOOLEAN,
             \/ risk' = set_global_halted(risk, flag)
             \/ risk' = set_cancel_only(risk, flag)
             \/ risk' = set_default_symbol_enabled(risk, flag)
      PROVE  risk' \in RiskState
  BY <1>2 DEF set_global_halted, set_cancel_only, set_default_symbol_enabled, RiskState
<1>3. ASSUME NEW symbol \in Symbol,
             \/ risk' = enable_symbol(risk, symbol)
             \/ risk' = disable_symbol(risk, symbol)
      PROVE  risk' \in RiskState
  <2> DEFINE on == risk.enabled_symbols
             off == risk.disabled_symbols
  <2>1. /\ on \cup {symbol} \in SUBSET Symbol /\ off \ {symbol} \in SUBSET Symbol
        /\ off \cup {symbol} \in SUBSET Symbol /\ on \ {symbol} \in SUBSET Symbol
    BY <1>3 DEF RiskState
  <2>2. CASE risk' = enable_symbol(risk, symbol)
    BY <2>1, <2>2 DEF enable_symbol, RiskState
  <2>3. CASE risk' = disable_symbol(risk, symbol)
    BY <2>1, <2>3 DEF disable_symbol, RiskState
  <2> QED
    BY <1>3, <2>2, <2>3
<1>4. ASSUME risk' = clear_symbol_overrides(risk)
      PROVE  risk' \in RiskState
  BY <1>4 DEF clear_symbol_overrides, RiskState
<1> QED
  BY <1>1, <1>2, <1>3, <1>4 DEF ControlRisk

\* Type correctness of the engine.
THEOREM EngineTypeCorrect == Spec => []TypeOK
<1> DEFINE Outcomes == {"none", "rejected", "enter", "replace", "cancel", "execute"}
           Own == risk \in RiskState /\ outcome \in Outcomes
<1>1. Init => Own
  <2> SUFFICES ASSUME NEW limits \in Limits, risk = InitialRisk(limits), outcome = "none"
               PROVE  Own
    BY DEF Init
  <2> QED
    BY LimitsAssumption DEF InitialRisk, RiskState
<1>2. Own /\ [Next]_vars => Own'
  <2> SUFFICES ASSUME Own, [Next]_vars PROVE Own'
    OBVIOUS
  <2>1. CASE ControlRisk
    BY <2>1, ControlType DEF ControlRisk
  <2>2. CASE UNCHANGED risk /\ outcome' \in Outcomes
    BY <2>2
  <2>3. ASSUME NEW m \in EnterOrderMessage, SubmitEnter(m) PROVE Own'
    BY <2>3, <2>2 DEF SubmitEnter, from_risk_reject, from_lifecycle
  <2>4. ASSUME NEW m \in ReplaceOrderMessage, SubmitReplace(m) PROVE Own'
    BY <2>4, <2>2 DEF SubmitReplace, from_risk_reject, from_lifecycle
  <2>5. ASSUME NEW m \in CancelOrderMessage, SubmitCancel(m) PROVE Own'
    BY <2>5, <2>2 DEF SubmitCancel, from_risk_reject, from_lifecycle
  <2>6. ASSUME NEW ref \in UserRefNum, NEW quantity \in Quantity, EngineExecute(ref, quantity)
        PROVE  Own'
    BY <2>6, <2>2 DEF EngineExecute, from_lifecycle
  <2>7. CASE EngineClear
    BY <2>7 DEF EngineClear
  <2>8. CASE UNCHANGED vars
    BY <2>8 DEF vars
  <2> QED
    BY <2>1, <2>3, <2>4, <2>5, <2>6, <2>7, <2>8 DEF Next
<1>3. LifecycleTypeOK /\ Own => TypeOK
  BY DEF TypeOK
<1> HIDE DEF Own
<1> QED
  BY <1>1, <1>2, <1>3, EngineImplementsLifecycle, TypeCorrect, PTL DEF Spec

-----------------------------------------------------------------------------
\* An order the common check accepts respects every switch and both limits; the
\* test against overflow makes the notional the exact product.
LEMMA CommonCheck ==
    ASSUME risk \in RiskState, NEW quantity \in Quantity, NEW price \in Price4,
           NEW symbol \in Symbol,
           check_common_order_risk(risk, quantity, price, symbol) = "none"
    PROVE  /\ ~risk.global_halted /\ ~risk.cancel_only
           /\ is_symbol_enabled(risk, symbol)
           /\ quantity <= risk.limits.max_order_quantity
           /\ quantity * price <= risk.limits.max_order_notional
<1>1. /\ ~risk.global_halted /\ ~risk.cancel_only
      /\ is_symbol_enabled(risk, symbol)
      /\ ~(quantity > risk.limits.max_order_quantity)
      /\ ~exceeds_notional_limit(risk, quantity, price)
  BY DEF check_common_order_risk
<1>2. /\ quantity \in Nat /\ price \in Nat
      /\ risk.limits.max_order_quantity \in Nat
      /\ risk.limits.max_order_notional \in Nat
  BY OuchAssumption, NotionalAssumption DEF Quantity, Price4, RiskState, RiskLimits
<1>3. ~(price * quantity > risk.limits.max_order_notional)
  BY <1>1 DEF exceeds_notional_limit, calculate_order_notional
<1>4. quantity * price = price * quantity /\ price * quantity \in Nat
  BY <1>2
<1> QED
  BY <1>1, <1>2, <1>3, <1>4

\* No step opens an order the risk supervisor did not check.
LEMMA StepChecked == TypeOK /\ [Next]_vars => [CheckedWhenOpened]_vars
<1> SUFFICES ASSUME TypeOK, Next, NEW ref \in UserRefNum, Opens(ref)
             PROVE  LET order == live_orders'[ref] IN
                    /\ ~risk.global_halted /\ ~risk.cancel_only
                    /\ is_symbol_enabled(risk, order.symbol)
                    /\ order.leaves_quantity <= risk.limits.max_order_quantity
                    /\ order.leaves_quantity * order.price <= risk.limits.max_order_notional
  BY DEF CheckedWhenOpened
<1>0. /\ live_orders \in [UserRefNum -> LiveOrder \cup {Absent}]
      /\ risk \in RiskState
      /\ ~contains(ref) /\ live_orders'[ref] # Absent
  BY DEF TypeOK, LifecycleTypeOK, Opens
<1>a. live_orders'[ref] # live_orders[ref]
  BY <1>0 DEF contains
<1>1. ASSUME NEW m \in EnterOrderMessage, SubmitEnter(m)
      PROVE  /\ live_orders'[ref] = NewOrder(m.quantity, m.price, m.symbol)
             /\ check_common_order_risk(risk, m.quantity, m.price, m.symbol) = "none"
  BY <1>0, <1>a, <1>1
  DEF SubmitEnter, from_risk_reject, lvars, Enter, lifecycle, check_enter
<1>2. ASSUME NEW m \in EnterOrderMessage, SubmitEnter(m)
      PROVE  LET order == live_orders'[ref] IN
             /\ ~risk.global_halted /\ ~risk.cancel_only
             /\ is_symbol_enabled(risk, order.symbol)
             /\ order.leaves_quantity <= risk.limits.max_order_quantity
             /\ order.leaves_quantity * order.price <= risk.limits.max_order_notional
  <2>1. m.quantity \in Quantity /\ m.price \in Price4 /\ m.symbol \in Symbol
    BY DEF EnterOrderMessage
  <2>2. /\ live_orders'[ref] = NewOrder(m.quantity, m.price, m.symbol)
        /\ check_common_order_risk(risk, m.quantity, m.price, m.symbol) = "none"
    BY <1>1, <1>2
  <2> QED
    BY <1>0, <2>1, <2>2, CommonCheck DEF NewOrder
<1>3. ASSUME NEW m \in ReplaceOrderMessage, SubmitReplace(m)
      PROVE  LET order == live_orders'[ref] IN
             /\ ~risk.global_halted /\ ~risk.cancel_only
             /\ is_symbol_enabled(risk, order.symbol)
             /\ order.leaves_quantity <= risk.limits.max_order_quantity
             /\ order.leaves_quantity * order.price <= risk.limits.max_order_notional
  <2> DEFINE old == live_orders[m.orig_user_ref_num]
  <2>1. m.orig_user_ref_num \in UserRefNum /\ m.quantity \in Quantity /\ m.price \in Price4
    BY DEF ReplaceOrderMessage
  <2>2. Replace(m) /\ ReplaceRejectReason(m) = "none"
    BY <1>a, <1>3 DEF SubmitReplace, from_risk_reject, lvars, Replace, lifecycle
  <2>3. contains(m.orig_user_ref_num)
    BY <2>2 DEF ReplaceRejectReason, InvalidReason
  <2>4. check_common_order_risk(risk, m.quantity, m.price, old.symbol) = "none"
    BY <1>a, <1>3, <2>3 DEF SubmitReplace, from_risk_reject, lvars, check_replace
  <2>5. live_orders'[ref] = NewOrder(m.quantity, m.price, old.symbol)
    BY <1>0, <1>a, <2>2 DEF Replace
  <2>6. old.symbol \in Symbol
    BY <1>0, <2>1, <2>3 DEF contains, LiveOrder
  <2> QED
    BY <1>0, <2>1, <2>4, <2>5, <2>6, CommonCheck DEF NewOrder
<1>4. ASSUME NEW m \in CancelOrderMessage, SubmitCancel(m) PROVE FALSE
  <2>1. live_orders'[ref] = live_orders[ref] \/ live_orders'[ref] = Absent
    BY <1>0, <1>4 DEF SubmitCancel, from_risk_reject, lvars, Cancel
  <2> QED
    BY <1>0, <1>a, <2>1
<1>5. ASSUME NEW r \in UserRefNum, NEW quantity \in Quantity, EngineExecute(r, quantity)
      PROVE  FALSE
  <2>1. live_orders'[ref] = live_orders[ref] \/ live_orders'[ref] = Absent
    BY <1>0, <1>5 DEF EngineExecute, Execute
  <2> QED
    BY <1>0, <1>a, <2>1
<1>6. ASSUME EngineClear PROVE FALSE
  BY <1>0, <1>6 DEF EngineClear, Clear
<1>7. ASSUME ControlRisk PROVE FALSE
  BY <1>a, <1>7 DEF ControlRisk, lvars
<1> QED
  BY <1>2, <1>3, <1>4, <1>5, <1>6, <1>7 DEF Next

\* Only orders the risk supervisor has checked open, whatever the limits, the
\* switches and the sequence of calls.
THEOREM OpenedOrdersChecked == Spec => OnlyCheckedOrdersOpen
  BY EngineTypeCorrect, StepChecked, PTL DEF Spec, OnlyCheckedOrdersOpen

\* During a halt a step that changes an order is a fill, or clear.
LEMMA StepFrozen == [Next]_vars => [FrozenByHalt]_vars
<1> SUFFICES ASSUME Next, risk.global_halted, live_orders' # live_orders
             PROVE  EngineClear \/ outcome' = "execute"
  BY DEF FrozenByHalt
<1>1. ASSUME NEW m \in EnterOrderMessage, SubmitEnter(m) PROVE FALSE
  BY <1>1 DEF SubmitEnter, check_enter, check_common_order_risk, from_risk_reject, lvars
<1>2. ASSUME NEW m \in ReplaceOrderMessage, SubmitReplace(m) PROVE FALSE
  <2>1. CASE contains(m.orig_user_ref_num)
    BY <1>2, <2>1
    DEF SubmitReplace, check_replace, check_common_order_risk, from_risk_reject, lvars
  <2>2. CASE ~contains(m.orig_user_ref_num)
    <3>1. ReplaceRejectReason(m) # "none"
      BY <2>2 DEF ReplaceRejectReason, InvalidReason
    <3> QED
      BY <1>2, <2>2, <3>1 DEF SubmitReplace, Replace, lifecycle
  <2> QED
    BY <2>1, <2>2
<1>3. ASSUME NEW m \in CancelOrderMessage, SubmitCancel(m) PROVE FALSE
  BY <1>3 DEF SubmitCancel, check_cancel, from_risk_reject, lvars
<1>4. ASSUME NEW ref \in UserRefNum, NEW quantity \in Quantity, EngineExecute(ref, quantity)
      PROVE  outcome' = "execute"
  BY <1>4 DEF EngineExecute, from_lifecycle
<1>5. ASSUME ControlRisk PROVE FALSE
  BY <1>5 DEF ControlRisk, lvars
<1> QED
  BY <1>1, <1>2, <1>3, <1>4, <1>5 DEF Next

\* A halt freezes every order but for fills.
THEOREM HaltFreezes == Spec => HaltFreezesOrders
  BY StepFrozen, PTL DEF Spec, HaltFreezesOrders

=============================================================================
