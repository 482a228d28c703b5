------------------------ MODULE PermissiveGateProofs ------------------------
(***************************************************************************)
(* Proofs about the gate, for every set of symbols, every limit and every  *)
(* width of the numbers: it agrees with the risk supervisor, and nothing   *)
(* leaks past it.                                                          *)
(***************************************************************************)
EXTENDS PermissiveGate, SequenceTheorems, TLAPS

\* Every order has one of the three kinds, and only a cancel has no symbol.
LEMMA OrderShape ==
    ASSUME NEW order \in Order
    PROVE  /\ order.kind \in {"enter", "replace", "cancel"}
           /\ order.quantity \in Quantity
           /\ order.kind # "cancel" =>
                order.has_symbol /\ order.symbol \in Symbol /\ order.price \in Price4
<1>1. CASE \E s \in Symbol, q \in Quantity, p \in Price4 :
             order = make_enter_guardrail_order(s, q, p)
  BY <1>1 DEF make_enter_guardrail_order
<1>2. CASE \E s \in Symbol, q \in Quantity, p \in Price4 :
             order = make_replace_guardrail_order(s, q, p)
  BY <1>2 DEF make_replace_guardrail_order
<1>3. CASE \E q \in Quantity : order = make_cancel_guardrail_order(q)
  BY <1>3 DEF make_cancel_guardrail_order
<1> QED
  BY <1>1, <1>2, <1>3 DEF Order

\* The gate's check and the supervisor's accept the same orders in every state:
\* they make the same tests in another order, and the test of the symbol's
\* presence, which only the gate makes, holds of every order but a cancel.
LEMMA SameVerdict == GateAgreesWithRisk
<1> SUFFICES ASSUME NEW order \in Order
             PROVE  (check(state, order) = "none") = (RiskReason(order) = "none")
  BY DEF GateAgreesWithRisk
<1>1. CASE order.kind = "cancel"
  BY <1>1 DEF check, RiskReason, Risk!check_cancel, is_valid_cancel_quantity,
              Risk!is_valid_cancel_quantity
<1>2. CASE order.kind # "cancel"
  <2>1. order.has_symbol
    BY <1>2, OrderShape
  <2>2. /\ Risk!is_symbol_enabled(state, order.symbol)
             <=> is_symbol_enabled(state, order.symbol)
        /\ Risk!is_valid_enter_or_replace_quantity(order.quantity)
             <=> is_valid_enter_or_replace_quantity(order.quantity)
        /\ Risk!is_valid_price4(order.price) <=> is_valid_price4(order.price)
    BY DEF Risk!is_symbol_enabled, is_symbol_enabled,
           Risk!is_valid_enter_or_replace_quantity, is_valid_enter_or_replace_quantity,
           Risk!is_valid_price4, is_valid_price4
  <2>3. Risk!exceeds_notional_limit(state, order.quantity, order.price)
          <=> exceeds_notional_limit(state, order.quantity, order.price)
    BY DEF Risk!exceeds_notional_limit, exceeds_notional_limit,
           Risk!calculate_order_notional, calculate_notional,
           Risk!NotionalOverflows, NotionalOverflows
  <2> QED
    BY <1>2, <2>1, <2>2, <2>3
    DEF check, check_order, RiskReason, Risk!check_common_order_risk
<1> QED
  BY <1>1, <1>2

\* The gate lets through exactly what the risk supervisor lets through.
THEOREM GateMatchesRisk == Spec => []GateAgreesWithRisk
  BY SameVerdict, PTL

-----------------------------------------------------------------------------
\* Every switch keeps the type of the guardrails.
LEMMA ControlKeepsType ==
    ASSUME state \in GuardrailStates, ControlGate
    PROVE  state' \in GuardrailStates
<1>1. ASSUME NEW limits \in Limits, state' = set_limits(state, limits)
      PROVE  state' \in GuardrailStates
  BY <1>1, GateAssumption DEF set_limits, GuardrailStates
<1>2. ASSUME NEW flag \in BOOLEAN,
             \/ state' = set_global_halted(state, flag)
             \/ state' = set_cancel_only(state, flag)
             \/ state' = set_default_symbol_enabled(state, flag)
      PROVE  state' \in GuardrailStates
  BY <1>2 DEF set_global_halted, set_cancel_only, set_default_symbol_enabled,
              GuardrailStates
<1>3. ASSUME NEW symbol \in Symbol,
             \/ state' = enable_symbol(state, symbol)
             \/ state' = disable_symbol(state, symbol)
      PROVE  state' \in GuardrailStates
  <2> DEFINE on == state.enabled_symbols
             off == state.disabled_symbols
  <2>1. /\ on \cup {symbol} \in SUBSET Symbol /\ off \ {symbol} \in SUBSET Symbol
        /\ off \cup {symbol} \in SUBSET Symbol /\ on \ {symbol} \in SUBSET Symbol
    BY <1>3 DEF GuardrailStates
  <2>2. CASE state' = enable_symbol(state, symbol)
    BY <2>1, <2>2 DEF enable_symbol, GuardrailStates
  <2>3. CASE state' = disable_symbol(state, symbol)
    BY <2>1, <2>3 DEF disable_symbol, GuardrailStates
  <2> QED
    BY <1>3, <2>2, <2>3
<1>4. CASE state' = clear_symbol_overrides(state)
  BY <1>4 DEF clear_symbol_overrides, GuardrailStates
<1> QED
  BY <1>1, <1>2, <1>3, <1>4 DEF ControlGate

\* A submit keeps the types of what it changes.
LEMMA SubmitKeepsType ==
    ASSUME TypeOK, NEW order \in Order, NEW payload_empty \in BOOLEAN,
           Submit(order, payload_empty)
    PROVE  TypeOK'
<1>1. /\ submissions' = submissions \/ submissions' = Append(submissions, order.kind)
      /\ reject_source' \in {"none", "guardrail", "backend"}
      /\ UNCHANGED <<state, open, max_submissions>>
  BY DEF Submit, BackendSubmit
<1>2. submissions' \in Seq({"enter", "replace", "cancel"})
  BY <1>1, OrderShape, AppendProperties DEF TypeOK
<1> QED
  BY <1>1, <1>2 DEF TypeOK

\* The gate's variables keep their types.
THEOREM GateTypeCorrect == Spec => []TypeOK
<1>1. Init => TypeOK
  <2> SUFFICES ASSUME Init PROVE TypeOK
    OBVIOUS
  <2>1. state \in GuardrailStates
    BY GateAssumption DEF Init, InitialGuardrail, GuardrailStates
  <2>2. submissions \in Seq({"enter", "replace", "cancel"})
    BY DEF Init
  <2> QED
    BY <2>1, <2>2 DEF Init, TypeOK
<1>2. TypeOK /\ [Next]_vars => TypeOK'
  <2> SUFFICES ASSUME TypeOK, [Next]_vars PROVE TypeOK'
    OBVIOUS
  <2>1. CASE ControlGate
    BY <2>1, ControlKeepsType DEF ControlGate, TypeOK
  <2>2. CASE set_guardrail_state
    <3>1. state' \in GuardrailStates
      BY <2>2, GateAssumption DEF set_guardrail_state, InitialGuardrail, GuardrailStates
    <3> QED
      BY <2>2, <3>1 DEF set_guardrail_state, TypeOK
  <2>3. CASE set_open \/ set_max_submissions \/ UNCHANGED vars
    BY <2>3 DEF set_open, set_max_submissions, vars, TypeOK
  <2>4. CASE clear
    BY <2>4 DEF clear, TypeOK
  <2> QED
    BY <2>1, <2>2, <2>3, <2>4, SubmitKeepsType DEF Next
<1> QED
  BY <1>1, <1>2, PTL DEF Spec

-----------------------------------------------------------------------------
\* An order the check lets through is permitted: the test against overflow makes
\* the notional it compares the exact product.
LEMMA CheckedIsPermitted ==
    ASSUME TypeOK, NEW order \in Order, check(state, order) = "none"
    PROVE  Permitted(order)
<1>1. ~state.global_halted
  BY DEF check
<1>2. ASSUME order.kind # "cancel"
      PROVE  /\ ~state.cancel_only
             /\ is_symbol_enabled(state, order.symbol)
             /\ order.quantity <= state.limits.max_order_quantity
             /\ order.quantity * order.price <= state.limits.max_order_notional
  <2>1. /\ ~state.cancel_only
        /\ is_symbol_enabled(state, order.symbol)
        /\ ~(order.quantity > state.limits.max_order_quantity)
        /\ ~exceeds_notional_limit(state, order.quantity, order.price)
    BY <1>1, <1>2 DEF check, check_order
  <2>2. order.quantity \in Quantity /\ order.price \in Price4
    BY <1>2, OrderShape
  <2>3. /\ order.quantity \in Nat /\ order.price \in Nat
        /\ state.limits.max_order_quantity \in Nat
        /\ state.limits.max_order_notional \in Nat
    BY <2>2, OuchAssumption, NotionalAssumption
    DEF Quantity, Price4, TypeOK, GuardrailStates, GuardrailLimits
  <2>4. ~(order.price * order.quantity > state.limits.max_order_notional)
    BY <2>1 DEF exceeds_notional_limit, calculate_notional
  <2>5. /\ order.quantity * order.price = order.price * order.quantity
        /\ order.price * order.quantity \in Nat
    BY <2>3
  <2> QED
    BY <2>1, <2>3, <2>4, <2>5
<1> QED
  BY <1>1, <1>2 DEF Permitted

\* Nothing leaks past the gate, whatever the switches and the limits.
THEOREM NothingLeaks == Spec => NoLeak
<1>1. TypeOK /\ [Next]_vars => [SubmittedIsPermitted]_vars
  <2> SUFFICES ASSUME TypeOK, Len(submissions') > Len(submissions),
                      NEW order \in Order, Submit(order, FALSE)
               PROVE  Permitted(order)
    BY DEF SubmittedIsPermitted
  <2>1. Len(submissions) \in Nat
    BY LenProperties DEF TypeOK
  <2>2. submissions' # submissions
    BY <2>1
  <2>3. check(state, order) = "none"
    BY <2>2 DEF Submit
  <2> QED
    BY <2>3, CheckedIsPermitted
<1> QED
  BY <1>1, GateTypeCorrect, PTL DEF Spec, NoLeak

=============================================================================
