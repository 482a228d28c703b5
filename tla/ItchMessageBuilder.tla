------------------------ MODULE ItchMessageBuilder ------------------------
(***************************************************************************)
(* ItchMessageBuilder (src/gen/itch_message_builder.cpp): the synthetic    *)
(* market of fgep_md_generator. Every choice it makes is a function of the *)
(* number of messages generated so far. The builder is a record of the     *)
(* fields it changes; its configuration is a constant.                     *)
(*                                                                         *)
(* A timestamp is taken modulo a day, so timestamp_ok holds of each.       *)
(***************************************************************************)
EXTENDS MarketTypes, Sequences

CONSTANT
    BuilderConfig    \* ItchMessageBuilderConfig, as the caller gives it

\* What the constructor makes of hot_symbol_count.
clamp_hot_count(hot, symbols) ==
    IF symbols = 0 THEN 0
    ELSE IF hot = 0 THEN 1
    ELSE IF hot < symbols THEN hot ELSE symbols

clamp_percent(percent) == IF percent > 100 THEN 100 ELSE percent

DefaultSymbol == [symbol |-> "AAPL", base_price |-> 1000000, price_step |-> 100]

\* config_, once the constructor is done with it.
config ==
    LET c == BuilderConfig
        symbols == IF c.symbols = <<>> THEN <<DefaultSymbol>> ELSE c.symbols
        least == IF c.min_shares = 0 THEN 1 ELSE c.min_shares IN
    [c EXCEPT !.symbols = symbols,
              !.min_shares = least,
              !.max_shares = IF @ < least THEN least ELSE @,
              !.hot_symbol_count = clamp_hot_count(@, Len(symbols)),
              !.hot_symbol_percent = clamp_percent(@),
              !.cancel_percent = clamp_percent(@)]

symbol_count == Len(config.symbols)

\* Symbols are numbered from 1 here and from 0 in the code.
stock_locate_at(index) == (config.first_stock_locate + index - 1) % (MaxLocate + 1)

\* The constructor, and reset.
NewBuilder ==
    [next_order_reference_number |-> config.first_order_reference_number,
     generated_count |-> 0,
     resting_orders |-> [index \in 1 .. symbol_count |-> <<>>]]

make_header(index) == [stock_locate |-> stock_locate_at(index), timestamp_ok |-> TRUE]

\* One of session_open_messages.
session_open_message(index) ==
    [type |-> "stock_directory", header |-> make_header(index),
     stock |-> config.symbols[index].symbol, listing |-> CHOOSE l \in Listings : TRUE]

-----------------------------------------------------------------------------
choose_symbol_index(g) ==
    LET hot == config.hot_symbol_count
        cold == symbol_count - hot IN
    IF symbol_count <= 1 THEN 1
    ELSE IF g % 100 < config.hot_symbol_percent \/ cold = 0 THEN 1 + (g % hot)
    ELSE 1 + hot + (g % cold)

choose_shares(g) == config.min_shares + (g % (config.max_shares - config.min_shares + 1))

choose_side(g) == IF ~config.alternate_sides \/ g % 2 = 0 THEN "buy" ELSE "sell"

choose_price(g, index, side) ==
    LET c == config.symbols[index]
        offset == (c.price_step * 5 + (g % 10) * c.price_step) % (MaxPrice + 1) IN
    IF side = "sell" THEN (c.base_price + offset) % (MaxPrice + 1)
    ELSE IF offset < c.base_price THEN c.base_price - offset
    ELSE IF c.price_step > 0 THEN c.price_step ELSE 1

should_cancel(builder, g, index) ==
    /\ builder.resting_orders[index] # <<>>
    /\ (g * 7 + 3) % 100 < config.cancel_percent

build_add_order(builder, g, index) ==
    LET ref == builder.next_order_reference_number
        side == choose_side(g) IN
    [builder |-> [builder EXCEPT !.next_order_reference_number = (@ + 1) % (MaxReference + 1),
                                 !.resting_orders[index] = Append(@, ref)],
     message |-> [type |-> "add", header |-> make_header(index),
                  order_reference_number |-> ref, side |-> side,
                  shares |-> choose_shares(g), stock |-> config.symbols[index].symbol,
                  price |-> choose_price(g, index, side)]]

\* The oldest order the builder still has; it forgets it, whatever is cancelled.
build_cancel(builder, g, index) ==
    [builder |-> [builder EXCEPT !.resting_orders[index] = Tail(@)],
     message |-> [type |-> "reduce", header |-> make_header(index),
                  order_reference_number |-> Head(builder.resting_orders[index]),
                  shares |-> choose_shares(g)]]

next_market_event(builder) ==
    LET g == builder.generated_count + 1
        counted == [builder EXCEPT !.generated_count = g]
        index == choose_symbol_index(g) IN
    IF should_cancel(counted, g, index) THEN build_cancel(counted, g, index)
    ELSE build_add_order(counted, g, index)

=============================================================================
