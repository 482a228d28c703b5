------------------------- MODULE MCGuardrailControl -------------------------
EXTENDS GuardrailControl

MCLimits == [max_order_quantity |-> 1, max_order_notional |-> 1]

MCLooseLimits == [max_order_quantity |-> 2, max_order_notional |-> NotionalMax]

\* Switching the halt both ways shows which update wins.
HaltChange ==
    {[kind |-> "set_global_halt", value |-> TRUE],
     [kind |-> "set_global_halt", value |-> FALSE]}

\* The halt, the limits and the overrides of a symbol.
SomeChange ==
    HaltChange \cup
    {[kind |-> "set_limits", value |-> MCLooseLimits],
     [kind |-> "clear_symbol_overrides", value |-> TRUE]}
      \cup [kind : {"disable_symbol"}, value : Symbol]

=============================================================================
