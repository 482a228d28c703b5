---------------------- MODULE SimulatedExecutionEngine ----------------------
(***************************************************************************)
(* SimulatedExecutionEngine (src/execution/simulated_execution_engine.cpp):*)
(* the risk supervisor in front of the order lifecycle, with the           *)
(* supervisor's switches reachable through risk() between any two calls.   *)
(* A call the supervisor rejects never reaches the lifecycle engine.       *)
(***************************************************************************)
EXTENDS OrderLifecycle, RiskSupervisor

CONSTANT Limits   \* the RiskLimits an operator may configure

ASSUME LimitsAssumption == Limits \subseteq RiskLimits

VARIABLES
    risk,      \* risk_
    outcome    \* the last call's ExecutionResult: its action, or rejected

vars == <<live_orders, highest_user_ref_num, used, open, risk, outcome>>

Init ==
    /\ LifecycleInit
    /\ \E limits \in Limits : risk = InitialRisk(limits)
    /\ outcome = "none"

-----------------------------------------------------------------------------
from_risk_reject == outcome' = "rejected" /\ UNCHANGED lvars

\* A call the lifecycle engine accepts always changes some live order.
from_lifecycle(action) ==
    outcome' = IF live_orders' = live_orders THEN "rejected" ELSE action

SubmitEnter(m) ==
    /\ IF check_enter(risk, m) # "none"
       THEN from_risk_reject
       ELSE Enter(m) /\ from_lifecycle("enter")
    /\ UNCHANGED risk

\* The order's own symbol is the one checked; without an order there is none to
\* check, and the lifecycle engine gets the message unchecked.
SubmitReplace(m) ==
    /\ IF contains(m.orig_user_ref_num)
          /\ check_replace(risk, m, live_orders[m.orig_user_ref_num].symbol) # "none"
       THEN from_risk_reject
       ELSE Replace(m) /\ from_lifecycle("replace")
    /\ UNCHANGED risk

SubmitCancel(m) ==
    /\ IF check_cancel(risk, m) # "none"
       THEN from_risk_reject
       ELSE Cancel(m) /\ from_lifecycle("cancel")
    /\ UNCHANGED risk

\* Fills come from the venue: no check.
EngineExecute(ref, quantity) ==
    /\ Execute(ref, quantity)
    /\ from_lifecycle("execute")
    /\ UNCHANGED risk

EngineClear == Clear /\ UNCHANGED <<risk, outcome>>

\* risk().set_...
ControlRisk ==
    /\ \/ \E limits \in Limits : risk' = set_limits(risk, limits)
       \/ \E flag \in BOOLEAN :
            \/ risk' = set_global_halted(risk, flag)
            \/ risk' = set_cancel_only(risk, flag)
            \/ risk' = set_default_symbol_enabled(risk, flag)
       \/ \E symbol \in Symbol :
            \/ risk' = enable_symbol(risk, symbol)
            \/ risk' = disable_symbol(risk, symbol)
       \/ risk' = clear_symbol_overrides(risk)
    /\ outcome' = "none"
    /\ UNCHANGED lvars

Next ==
    \/ \E m \in EnterOrderMessage : SubmitEnter(m)
    \/ \E m \in ReplaceOrderMessage : SubmitReplace(m)
    \/ \E m \in CancelOrderMessage : SubmitCancel(m)
    \/ \E ref \in UserRefNum, quantity \in Quantity : EngineExecute(ref, quantity)
    \/ EngineClear
    \/ ControlRisk

Spec == Init /\ [][Next]_vars

-----------------------------------------------------------------------------
\* Type correctness of the engine's own field and the lifecycle's.
TypeOK ==
    /\ LifecycleTypeOK
    /\ risk \in RiskState
    /\ outcome \in {"none", "rejected", "enter", "replace", "cancel", "execute"}

\* The order at ref opens in this step.
Opens(ref) == ~contains(ref) /\ live_orders'[ref] # Absent

\* What holds of an order at ref when it opens: both switches, its symbol, and
\* both limits, with the notional as the exact product, not the saturated one.
CheckedWhenOpened ==
    \A ref \in UserRefNum : Opens(ref) =>
        LET order == live_orders'[ref] IN
        /\ ~risk.global_halted /\ ~risk.cancel_only
        /\ is_symbol_enabled(risk, order.symbol)
        /\ order.leaves_quantity <= risk.limits.max_order_quantity
        /\ order.leaves_quantity * order.price <= risk.limits.max_order_notional

\* Whatever path it takes (enter, replace, or a replace the supervisor never
\* saw), an order opens only while trading is neither halted nor cancel-only,
\* on an enabled symbol, and within both limits in force at that moment.
OnlyCheckedOrdersOpen == [][CheckedWhenOpened]_vars

FrozenByHalt ==
    (risk.global_halted /\ live_orders' # live_orders)
        => EngineClear \/ outcome' = "execute"

\* Once the halt is set, no call but a fill changes a live order until it is
\* lifted: not a cancel, and not a replace whose order the supervisor never saw.
HaltFreezesOrders == [][FrozenByHalt]_vars

=============================================================================
