--------------------------- MODULE PermissiveGate ---------------------------
(***************************************************************************)
(* PermissiveGate (src/gate/permissive_gate.cpp) in front of a             *)
(* RecordingExecutionBackend (src/execution/execution_backend.cpp): the    *)
(* guardrails decide, then the backend decides. The guardrails are changed *)
(* through guardrail_state() or replaced as a whole between calls.         *)
(***************************************************************************)
EXTENDS GuardrailState, Sequences

CONSTANTS
    Limits,           \* the GuardrailLimits an operator may configure
    MaxSubmissions    \* bound: largest max_submissions configured

ASSUME GateAssumption ==
    /\ Limits \subseteq GuardrailLimits
    /\ MaxSubmissions \in Nat

VARIABLES
    state,            \* guardrail_state_
    open,             \* open_ of the backend
    max_submissions,  \* max_submissions_ of the backend, 0 for no limit
    submissions,      \* submissions_ of the backend: the kinds of the requests
    reject_source     \* of the last GateSubmitResult

vars == <<state, open, max_submissions, submissions, reject_source>>

Init ==
    /\ \E limits \in Limits : state = InitialGuardrail(limits)
    /\ open = TRUE
    /\ max_submissions \in 0 .. MaxSubmissions
    /\ submissions = <<>>
    /\ reject_source = "none"

Order ==
    {make_enter_guardrail_order(s, q, p) : s \in Symbol, q \in Quantity, p \in Price4}
      \cup {make_replace_guardrail_order(s, q, p) :
              s \in Symbol, q \in Quantity, p \in Price4}
      \cup {make_cancel_guardrail_order(q) : q \in Quantity}

-----------------------------------------------------------------------------
at_capacity == max_submissions # 0 /\ Len(submissions) >= max_submissions

\* RecordingExecutionBackend::submit; bound: an unlimited backend is used for
\* no more than MaxSubmissions requests.
BackendSubmit(kind, payload_empty) ==
    IF ~open \/ payload_empty \/ at_capacity
    THEN reject_source' = "backend" /\ UNCHANGED submissions
    ELSE /\ Len(submissions) < MaxSubmissions
         /\ submissions' = Append(submissions, kind)
         /\ reject_source' = "none"

Submit(order, payload_empty) ==
    /\ IF check(state, order) # "none"
       THEN reject_source' = "guardrail" /\ UNCHANGED submissions
       ELSE BackendSubmit(order.kind, payload_empty)
    /\ UNCHANGED <<state, open, max_submissions>>

\* guardrail_state().set_...
ControlGate ==
    /\ \/ \E limits \in Limits : state' = set_limits(state, limits)
       \/ \E flag \in BOOLEAN :
            \/ state' = set_global_halted(state, flag)
            \/ state' = set_cancel_only(state, flag)
            \/ state' = set_default_symbol_enabled(state, flag)
       \/ \E symbol \in Symbol :
            \/ state' = enable_symbol(state, symbol)
            \/ state' = disable_symbol(state, symbol)
       \/ state' = clear_symbol_overrides(state)
    /\ UNCHANGED <<open, max_submissions, submissions, reject_source>>

set_guardrail_state ==
    /\ \E limits \in Limits : state' = InitialGuardrail(limits)
    /\ UNCHANGED <<open, max_submissions, submissions, reject_source>>

set_open ==
    /\ open' \in BOOLEAN
    /\ UNCHANGED <<state, max_submissions, submissions, reject_source>>

set_max_submissions ==
    /\ max_submissions' \in 0 .. MaxSubmissions
    /\ UNCHANGED <<state, open, submissions, reject_source>>

clear ==
    /\ submissions' = <<>>
    /\ UNCHANGED <<state, open, max_submissions, reject_source>>

Next ==
    \/ \E order \in Order, payload_empty \in BOOLEAN : Submit(order, payload_empty)
    \/ ControlGate
    \/ set_guardrail_state
    \/ set_open
    \/ set_max_submissions
    \/ clear

Spec == Init /\ [][Next]_vars

-----------------------------------------------------------------------------
\* Type correctness.
TypeOK ==
    /\ state \in GuardrailStates
    /\ open \in BOOLEAN
    /\ max_submissions \in 0 .. MaxSubmissions
    /\ submissions \in Seq({"enter", "replace", "cancel"})
    /\ reject_source \in {"none", "guardrail", "backend"}

\* What the rules say of an order that may be submitted, with the exact product
\* as its notional, not the saturated one.
Permitted(order) ==
    /\ ~state.global_halted
    /\ order.kind # "cancel" =>
         /\ ~state.cancel_only
         /\ is_symbol_enabled(state, order.symbol)
         /\ order.quantity <= state.limits.max_order_quantity
         /\ order.quantity * order.price <= state.limits.max_order_notional

SubmittedIsPermitted ==
    Len(submissions') > Len(submissions) =>
        \A order \in Order : Submit(order, FALSE) => Permitted(order)

\* Nothing leaks past the gate: a request reaches the backend only while trading
\* is not halted, and a request other than a cancel only while it is not
\* cancel-only, on an enabled symbol and within both limits.
NoLeak == [][SubmittedIsPermitted]_vars

Risk == INSTANCE RiskSupervisor

\* What the risk supervisor says of the same order under the same switches.
RiskReason(order) ==
    IF order.kind = "cancel" THEN Risk!check_cancel(state, order)
    ELSE Risk!check_common_order_risk(state, order.quantity, order.price, order.symbol)

\* The gate and the risk supervisor, two implementations that test the same
\* rules in different orders, let the same orders through under the same
\* switches and limits (the reasons they give may differ).
GateAgreesWithRisk ==
    \A order \in Order : (check(state, order) = "none") = (RiskReason(order) = "none")

=============================================================================
