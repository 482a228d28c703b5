--------------------------- MODULE MCMarketBooks ---------------------------
EXTENDS MarketBooks, TLC

\* Two instruments of venue 1, which may carry one symbol, and one of venue 2.
\* The first sees every message; the others have one order to trade.
First == KeyOf(1, 1)

MCKeys == {First, KeyOf(1, 2), KeyOf(2, 1)}

\* What the decoder returns about an instrument: no field is zero.
Decoded(key) ==
    LET refs == IF key = First THEN 1 .. MaxReference ELSE {1}
        header == [stock_locate |-> key.stock_locate, timestamp_ok |-> TRUE] IN
    [type : {"add"}, header : {header}, order_reference_number : refs, side : Side,
     shares : 1 .. MaxShares, stock : StockSymbol, price : 1 .. MaxPrice]
      \cup
    [type : {"reduce"}, header : {header}, order_reference_number : refs,
     shares : 1 .. MaxShares]
      \cup
    [type : {"delete"}, header : {header}, order_reference_number : refs]
      \cup
    [type : {"replace"}, header : {header}, original_order_reference_number : refs,
     new_order_reference_number : refs, shares : 1 .. MaxShares, price : 1 .. MaxPrice]
      \cup
    [type : {"stock_directory"}, header : {header}, stock : StockSymbol, listing : Listings]
      \cup
    [type : {"stock_trading_action"}, header : {header}, stock : StockSymbol,
     trading_state : IF key = First THEN TradingState ELSE {}]
      \cup
    [type : {"other"}, header : {header}]

\* The first instrument's messages with one field that the callee refuses.
Refused(stock) ==
    LET header == [stock_locate |-> 1, timestamp_ok |-> TRUE]
        add == [type |-> "add", header |-> header, order_reference_number |-> 1,
                side |-> "buy", shares |-> 1, stock |-> stock, price |-> 1]
        replace == [type |-> "replace", header |-> header,
                    original_order_reference_number |-> 1,
                    new_order_reference_number |-> 2, shares |-> 1, price |-> 1] IN
    {[add EXCEPT !.order_reference_number = 0], [add EXCEPT !.shares = 0],
     [add EXCEPT !.price = 0], [add EXCEPT !.header.timestamp_ok = FALSE],
     [replace EXCEPT !.shares = 0], [replace EXCEPT !.new_order_reference_number = 0],
     [type |-> "reduce", header |-> header, order_reference_number |-> 1, shares |-> 0]}

MCMessages ==
    [key \in MCKeys |->
        Decoded(key) \cup (IF key = First THEN UNION {Refused(s) : s \in StockSymbol} ELSE {})]

Symmetry == Permutations(StockSymbol)

=============================================================================
