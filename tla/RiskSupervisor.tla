--------------------------- MODULE RiskSupervisor ---------------------------
(***************************************************************************)
(* RiskSupervisor (src/risk/risk_supervisor.cpp): the pre-trade checks and *)
(* the switches they depend on, as operators on a record of its fields.    *)
(***************************************************************************)
EXTENDS OuchRules

CONSTANT NotionalMax   \* 2^64 - 1

ASSUME NotionalAssumption == NotionalMax \in Nat

RiskLimits ==
    [max_order_quantity : Quantity, max_order_notional : 0 .. NotionalMax]

RiskState ==
    [limits : RiskLimits, global_halted : BOOLEAN, cancel_only : BOOLEAN,
     default_symbol_enabled : BOOLEAN,
     enabled_symbols : SUBSET Symbol, disabled_symbols : SUBSET Symbol]

InitialRisk(limits) ==
    [limits |-> limits, global_halted |-> FALSE, cancel_only |-> FALSE,
     default_symbol_enabled |-> TRUE,
     enabled_symbols |-> {}, disabled_symbols |-> {}]

-----------------------------------------------------------------------------
set_limits(risk, limits) == [risk EXCEPT !.limits = limits]

set_global_halted(risk, halted) == [risk EXCEPT !.global_halted = halted]

set_cancel_only(risk, enabled) == [risk EXCEPT !.cancel_only = enabled]

set_default_symbol_enabled(risk, enabled) ==
    [risk EXCEPT !.default_symbol_enabled = enabled]

enable_symbol(risk, symbol) ==
    [risk EXCEPT !.disabled_symbols = @ \ {symbol},
                 !.enabled_symbols = @ \cup {symbol}]

disable_symbol(risk, symbol) ==
    [risk EXCEPT !.enabled_symbols = @ \ {symbol},
                 !.disabled_symbols = @ \cup {symbol}]

clear_symbol_overrides(risk) ==
    [risk EXCEPT !.enabled_symbols = {}, !.disabled_symbols = {}]

is_symbol_enabled(risk, symbol) ==
    /\ symbol \notin risk.disabled_symbols
    /\ symbol \in risk.enabled_symbols \/ risk.default_symbol_enabled

-----------------------------------------------------------------------------
\* The product would not fit a Notional.
NotionalOverflows(quantity, price) ==
    quantity # 0 /\ price # 0 /\ price > NotionalMax \div quantity

calculate_order_notional(quantity, price) ==
    IF NotionalOverflows(quantity, price) THEN NotionalMax ELSE price * quantity

\* Mutant of exceeds_notional_limit: the product wraps.
ExceedsWrapped(risk, quantity, price) ==
    (price * quantity) % (NotionalMax + 1) > risk.limits.max_order_notional

exceeds_notional_limit(risk, quantity, price) ==
    \/ NotionalOverflows(quantity, price)
    \/ calculate_order_notional(quantity, price) > risk.limits.max_order_notional

\* The reason the order is rejected for, "none" when it is accepted.
check_common_order_risk(risk, quantity, price, symbol) ==
    IF risk.global_halted THEN "global_halt"
    ELSE IF risk.cancel_only THEN "cancel_only"
    ELSE IF ~is_symbol_enabled(risk, symbol) THEN "symbol_disabled"
    ELSE IF ~is_valid_enter_or_replace_quantity(quantity) THEN "invalid_quantity"
    ELSE IF ~is_valid_price4(price) THEN "invalid_price"
    ELSE IF quantity > risk.limits.max_order_quantity THEN "max_order_quantity"
    ELSE IF exceeds_notional_limit(risk, quantity, price) THEN "max_order_notional"
    ELSE "none"

check_enter(risk, m) ==
    check_common_order_risk(risk, m.quantity, m.price, m.symbol)

check_replace(risk, m, current_symbol) ==
    check_common_order_risk(risk, m.quantity, m.price, current_symbol)

\* Mutant of check_cancel: a halt lets cancels through.
CheckCancelDuringHalt(risk, m) ==
    IF ~is_valid_cancel_quantity(m.quantity) THEN "invalid_quantity" ELSE "none"

check_cancel(risk, m) ==
    IF risk.global_halted THEN "global_halt"
    ELSE IF ~is_valid_cancel_quantity(m.quantity) THEN "invalid_quantity"
    ELSE "none"

=============================================================================
