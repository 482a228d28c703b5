-------------------------- MODULE SymbolOrderBook --------------------------
(***************************************************************************)
(* SymbolOrderBook (src/book/symbol_order_book.cpp): the resting orders of *)
(* one instrument and, kept beside them, the aggregated price levels that  *)
(* the best bid and ask are read from. The book is a record of the class's *)
(* fields, and every handler is an operator on it, so that a venue can     *)
(* hold many books.                                                        *)
(*                                                                         *)
(* A level's quantity is 64 bits wide and the shares it adds up are 32     *)
(* bits: it cannot overflow with fewer than 2^32 orders, and is a natural  *)
(* number here. bids_ and asks_ are maps that hold only some prices.       *)
(***************************************************************************)
EXTENDS MarketTypes, FiniteSetsExt

CONSTANT Absent    \* the value of orders at a reference that does not rest

RestingOrder == [side : Side, shares : Shares, price : Price4]

ASSUME AbsentAssumption == Absent \notin RestingOrder

LevelState == [quantity : Nat, order_count : Nat]

NoLevels == [price \in {} |-> Absent]

\* levels["buy"] is bids_, levels["sell"] is asks_.
NewBook(key, stock) ==
    [key |-> key, stock |-> stock,
     orders |-> [ref \in OrderReferenceNumber |-> Absent],
     levels |-> [side \in Side |-> NoLevels]]

-----------------------------------------------------------------------------
contains_order(book, ref) == book.orders[ref] # Absent

\* A call's ErrorCode and the book it leaves.
Failed(book, error) == [error |-> error, book |-> book]

Done(book) == [error |-> "ok", book |-> book]

require_matching_header(book, header) ==
    IF ~is_valid_instrument_key(book.key) THEN "invalid_state"
    ELSE IF header.stock_locate # book.key.stock_locate \/ ~header.timestamp_ok
    THEN "invalid_argument"
    ELSE "ok"

-----------------------------------------------------------------------------
LevelAt(levels, price) ==
    IF price \in DOMAIN levels THEN levels[price] ELSE [quantity |-> 0, order_count |-> 0]

SetLevel(levels, price, state) ==
    [p \in DOMAIN levels \cup {price} |-> IF p = price THEN state ELSE levels[p]]

Erased(levels, price) == [p \in DOMAIN levels \ {price} |-> levels[p]]

add_to_level(book, order) ==
    LET levels == book.levels[order.side]
        old == LevelAt(levels, order.price) IN
    [book EXCEPT !.levels[order.side] =
        SetLevel(levels, order.price,
                 [quantity |-> old.quantity + order.shares,
                  order_count |-> old.order_count + 1])]

\* remove_from_state: shares equal to the order's take the order off the level.
RemoveFromState(state, order, shares) ==
    [quantity |-> IF shares >= state.quantity THEN 0 ELSE state.quantity - shares,
     order_count |-> IF shares = order.shares /\ state.order_count > 0
                     THEN state.order_count - 1 ELSE state.order_count]

is_empty(state) == state.quantity = 0 \/ state.order_count = 0

remove_from_level(book, order, shares) ==
    LET levels == book.levels[order.side]
        state == RemoveFromState(levels[order.price], order, shares) IN
    IF order.price \notin DOMAIN levels THEN book
    ELSE [book EXCEPT !.levels[order.side] =
            IF is_empty(state) THEN Erased(levels, order.price)
            ELSE SetLevel(levels, order.price, state)]

-----------------------------------------------------------------------------
\* Mutant of add_order: an order that already rests is overwritten.
AddOrderOverwrites(book, ref, side, shares, stock, price) ==
    LET order == [side |-> side, shares |-> shares, price |-> price] IN
    IF \/ ~is_valid_order_reference_number(ref)
       \/ ~is_valid_shares(shares)
       \/ ~is_valid_price4(price)
       \/ stock # book.stock
    THEN Failed(book, "invalid_argument")
    ELSE Done([add_to_level(book, order) EXCEPT !.orders[ref] = order])

add_order(book, ref, side, shares, stock, price) ==
    LET order == [side |-> side, shares |-> shares, price |-> price] IN
    IF \/ ~is_valid_order_reference_number(ref)
       \/ ~is_valid_shares(shares)
       \/ ~is_valid_price4(price)
       \/ stock # book.stock
    THEN Failed(book, "invalid_argument")
    ELSE IF contains_order(book, ref) THEN Failed(book, "duplicate")
    ELSE Done([add_to_level(book, order) EXCEPT !.orders[ref] = order])

\* Mutant of reduce_order: the order is reduced before its level is.
ReduceOrderFirst(book, ref, shares) ==
    LET order == book.orders[ref]
        reduced == [order EXCEPT !.shares = @ - shares] IN
    IF ~is_valid_shares(shares) THEN Failed(book, "invalid_argument")
    ELSE IF ~contains_order(book, ref) THEN Failed(book, "not_found")
    ELSE IF shares > order.shares THEN Failed(book, "invalid_state")
    ELSE Done([remove_from_level(book, reduced, shares) EXCEPT
                 !.orders[ref] = IF reduced.shares = 0 THEN Absent ELSE reduced])

reduce_order(book, ref, shares) ==
    LET order == book.orders[ref] IN
    IF ~is_valid_shares(shares) THEN Failed(book, "invalid_argument")
    ELSE IF ~contains_order(book, ref) THEN Failed(book, "not_found")
    ELSE IF shares > order.shares THEN Failed(book, "invalid_state")
    ELSE Done([remove_from_level(book, order, shares) EXCEPT
                 !.orders[ref] = IF shares = order.shares THEN Absent
                                 ELSE [order EXCEPT !.shares = @ - shares]])

delete_order(book, ref) ==
    LET order == book.orders[ref] IN
    IF ~contains_order(book, ref) THEN Failed(book, "not_found")
    ELSE Done([remove_from_level(book, order, order.shares) EXCEPT !.orders[ref] = Absent])

\* Mutant of replace_order: no test for a duplicate before the old order goes.
ReplaceRemovesFirst(book, m) ==
    LET old == book.orders[m.original_order_reference_number]
        removed == [remove_from_level(book, old, old.shares) EXCEPT
                      !.orders[m.original_order_reference_number] = Absent] IN
    IF ~contains_order(book, m.original_order_reference_number)
    THEN Failed(book, "not_found")
    ELSE IF ~is_valid_shares(m.shares) \/ ~is_valid_price4(m.price)
    THEN Failed(book, "invalid_argument")
    ELSE add_order(removed, m.new_order_reference_number, old.side, m.shares,
                   book.stock, m.price)

\* The body of apply for OrderReplaceMessage behind the header's test. The old
\* order is gone when add_order runs, which can still refuse the new one.
replace_order(book, m) ==
    LET old == book.orders[m.original_order_reference_number]
        removed == [remove_from_level(book, old, old.shares) EXCEPT
                      !.orders[m.original_order_reference_number] = Absent] IN
    IF ~contains_order(book, m.original_order_reference_number)
    THEN Failed(book, "not_found")
    ELSE IF ~is_valid_shares(m.shares) \/ ~is_valid_price4(m.price)
    THEN Failed(book, "invalid_argument")
    ELSE IF contains_order(book, m.new_order_reference_number)
    THEN Failed(book, "duplicate")
    ELSE add_order(removed, m.new_order_reference_number, old.side, m.shares,
                   book.stock, m.price)

-----------------------------------------------------------------------------
\* apply, for the messages that change a book: each handler tests the header
\* first. The handlers of all other messages leave the book alone.
apply_to_book(book, m) ==
    LET mismatch == require_matching_header(book, m.header) IN
    IF mismatch # "ok" THEN Failed(book, mismatch)
    ELSE CASE m.type = "add" ->
                add_order(book, m.order_reference_number, m.side, m.shares, m.stock, m.price)
           [] m.type = "reduce" -> reduce_order(book, m.order_reference_number, m.shares)
           [] m.type = "delete" -> delete_order(book, m.order_reference_number)
           [] m.type = "replace" -> replace_order(book, m)

make_level(levels, price) ==
    [price |-> price, quantity |-> levels[price].quantity,
     order_count |-> levels[price].order_count]

\* bids_ is ordered from the highest price, asks_ from the lowest.
best_bid(book) ==
    LET levels == book.levels["buy"] IN
    IF levels = NoLevels THEN Absent ELSE make_level(levels, Max(DOMAIN levels))

best_ask(book) ==
    LET levels == book.levels["sell"] IN
    IF levels = NoLevels THEN Absent ELSE make_level(levels, Min(DOMAIN levels))

=============================================================================
