--------------------------- MODULE GuardrailState ---------------------------
(***************************************************************************)
(* GuardrailState (src/gate/guardrail_state.cpp): the checks of the gate   *)
(* in front of the execution backends, as operators on a record of its     *)
(* fields. It is a second implementation of the rules of RiskSupervisor.   *)
(***************************************************************************)
EXTENDS OuchRules

CONSTANT NotionalMax   \* 2^64 - 1

ASSUME NotionalAssumption == NotionalMax \in Nat

GuardrailLimits ==
    [max_order_quantity : Quantity, max_order_notional : 0 .. NotionalMax]

GuardrailStates ==
    [limits : GuardrailLimits, global_halted : BOOLEAN, cancel_only : BOOLEAN,
     default_symbol_enabled : BOOLEAN,
     enabled_symbols : SUBSET Symbol, disabled_symbols : SUBSET Symbol]

InitialGuardrail(limits) ==
    [limits |-> limits, global_halted |-> FALSE, cancel_only |-> FALSE,
     default_symbol_enabled |-> TRUE,
     enabled_symbols |-> {}, disabled_symbols |-> {}]

\* Orders as make_enter_, make_replace_ and make_cancel_guardrail_order build
\* them; only a cancel comes without a symbol.
make_enter_guardrail_order(symbol, quantity, price) ==
    [kind |-> "enter", has_symbol |-> TRUE, symbol |-> symbol,
     quantity |-> quantity, price |-> price]

make_replace_guardrail_order(current_symbol, quantity, price) ==
    [kind |-> "replace", has_symbol |-> TRUE, symbol |-> current_symbol,
     quantity |-> quantity, price |-> price]

make_cancel_guardrail_order(quantity) ==
    [kind |-> "cancel", has_symbol |-> FALSE, quantity |-> quantity, price |-> 0]

-----------------------------------------------------------------------------
\* Mutant of set_limits: the two limits are swapped.
SetLimitsSwapped(state, limits) ==
    [state EXCEPT !.limits.max_order_quantity = limits.max_order_notional,
                  !.limits.max_order_notional = limits.max_order_quantity]

set_limits(state, limits) == [state EXCEPT !.limits = limits]

set_global_halted(state, halted) == [state EXCEPT !.global_halted = halted]

set_cancel_only(state, enabled) == [state EXCEPT !.cancel_only = enabled]

set_default_symbol_enabled(state, enabled) ==
    [state EXCEPT !.default_symbol_enabled = enabled]

enable_symbol(state, symbol) ==
    [state EXCEPT !.disabled_symbols = @ \ {symbol},
                  !.enabled_symbols = @ \cup {symbol}]

disable_symbol(state, symbol) ==
    [state EXCEPT !.enabled_symbols = @ \ {symbol},
                  !.disabled_symbols = @ \cup {symbol}]

clear_symbol_overrides(state) ==
    [state EXCEPT !.enabled_symbols = {}, !.disabled_symbols = {}]

is_symbol_enabled(state, symbol) ==
    /\ symbol \notin state.disabled_symbols
    /\ symbol \in state.enabled_symbols \/ state.default_symbol_enabled

-----------------------------------------------------------------------------
\* The product would not fit a Notional.
NotionalOverflows(quantity, price) ==
    quantity # 0 /\ price # 0 /\ price > NotionalMax \div quantity

calculate_notional(quantity, price) ==
    IF NotionalOverflows(quantity, price) THEN NotionalMax ELSE price * quantity

exceeds_notional_limit(state, quantity, price) ==
    \/ NotionalOverflows(quantity, price)
    \/ calculate_notional(quantity, price) > state.limits.max_order_notional

\* Mutant of check_order: a price of zero passes.
CheckOrderAnyPrice(state, order) ==
    IF ~is_valid_enter_or_replace_quantity(order.quantity) THEN "invalid_quantity"
    ELSE IF ~order.has_symbol THEN "symbol_missing"
    ELSE IF ~is_symbol_enabled(state, order.symbol) THEN "symbol_disabled"
    ELSE IF order.quantity > state.limits.max_order_quantity THEN "max_order_quantity"
    ELSE IF exceeds_notional_limit(state, order.quantity, order.price)
    THEN "max_order_notional"
    ELSE "none"

\* Everything but the switches, for an order that is not a cancel.
check_order(state, order) ==
    IF ~is_valid_enter_or_replace_quantity(order.quantity) THEN "invalid_quantity"
    ELSE IF ~is_valid_price4(order.price) THEN "invalid_price"
    ELSE IF ~order.has_symbol THEN "symbol_missing"
    ELSE IF ~is_symbol_enabled(state, order.symbol) THEN "symbol_disabled"
    ELSE IF order.quantity > state.limits.max_order_quantity THEN "max_order_quantity"
    ELSE IF exceeds_notional_limit(state, order.quantity, order.price)
    THEN "max_order_notional"
    ELSE "none"

\* Mutant of check: a halt lets cancels through.
CheckCancelDuringHalt(state, order) ==
    IF order.kind = "cancel"
    THEN IF is_valid_cancel_quantity(order.quantity) THEN "none" ELSE "invalid_quantity"
    ELSE IF state.global_halted THEN "global_halt"
    ELSE IF state.cancel_only THEN "cancel_only"
    ELSE check_order(state, order)

\* The reason the order is rejected for, "none" when it is allowed.
check(state, order) ==
    IF state.global_halted THEN "global_halt"
    ELSE IF order.kind = "cancel"
    THEN IF is_valid_cancel_quantity(order.quantity) THEN "none" ELSE "invalid_quantity"
    ELSE IF state.cancel_only THEN "cancel_only"
    ELSE check_order(state, order)

=============================================================================
