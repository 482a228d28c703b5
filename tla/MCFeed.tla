------------------------------ MODULE MCFeed ------------------------------
EXTENDS Feed

\* A market of two symbols. The cancel of s1 takes half of its order, and all of
\* it when it arrives twice. The second sell of s1, 8 above 23 with prices up to
\* 30, wraps to the price 0, which encode_message refuses: a batch fails at its
\* first message, half way or at its last.
SmallMarket ==
    [symbols |-> <<[symbol |-> "s1", base_price |-> 23, price_step |-> 1],
                   [symbol |-> "s2", base_price |-> 6, price_step |-> 1]>>,
     first_stock_locate |-> 1, first_order_reference_number |-> 1,
     min_shares |-> 0, max_shares |-> 2, hot_symbol_count |-> 0,
     hot_symbol_percent |-> 4, cancel_percent |-> 40, alternate_sides |-> TRUE]

SmallSymbols == {"s1", "s2"}

\* The market of fgep_md_generator.
GeneratorMarket ==
    [symbols |-> <<[symbol |-> "AAPL", base_price |-> 1000000, price_step |-> 100],
                   [symbol |-> "MSFT", base_price |-> 2000000, price_step |-> 100],
                   [symbol |-> "TSLA", base_price |-> 3000000, price_step |-> 100]>>,
     first_stock_locate |-> 1, first_order_reference_number |-> 1,
     min_shares |-> 100, max_shares |-> 1000, hot_symbol_count |-> 1,
     hot_symbol_percent |-> 80, cancel_percent |-> 10, alternate_sides |-> TRUE]

GeneratorSymbols == {"AAPL", "MSFT", "TSLA"}

=============================================================================
