---------------------------- MODULE MarketBooks ----------------------------
(***************************************************************************)
(* The market of VenueBooks as a state machine: venues are added and       *)
(* messages applied one at a time, in any order.                           *)
(***************************************************************************)
EXTENDS VenueBooks

CONSTANTS
    Keys,          \* bound: the instruments that messages are about
    MaxListed,     \* bound: instruments listed at once
    MaxResting,    \* bound: orders resting at once
    Messages       \* the messages received about each of Keys

ASSUME MessagesAssumption ==
    \A key \in Keys : Messages[key] \subseteq BookMessage \cup DirectoryMessage \cup OtherMessage

VARIABLES
    market,
    refused    \* the last call returned an error

vars == <<market, refused>>

\* Every book of the market, by key.
BookKeys == {key \in Keys : /\ key.venue_id \in DOMAIN market.venues
                            /\ key.stock_locate \in DOMAIN BooksOf(market, key.venue_id)}

BookAt(key) == BooksOf(market, key.venue_id)[key.stock_locate]

Resting(key) == {ref \in OrderReferenceNumber : contains_order(BookAt(key), ref)}

Init == market = EmptyMarket /\ refused = FALSE

Call(done) == market' = done.market /\ refused' = (done.error # "ok")

AddVenue(venue_id) == Call(add_venue(market, venue_id))

\* ItchReplayApplier::apply of one decoded message.
Apply(venue_id, m) == Call(apply_message(market, venue_id, m))

\* The bounds leave room for what a message may add.
Room(venue_id, m) ==
    /\ m.type = "stock_directory" =>
         \/ Cardinality(DOMAIN market.directory.instruments) < MaxListed
         \/ contains(market.directory, KeyOf(venue_id, m.header.stock_locate))
    /\ m.type = "add" =>
         MapThenSumSet(LAMBDA key : Cardinality(Resting(key)), BookKeys) < MaxResting

Next ==
    \/ \E venue_id \in VenueId : AddVenue(venue_id)
    \/ \E key \in Keys : \E m \in Messages[key] : Room(key.venue_id, m) /\ Apply(key.venue_id, m)

Spec == Init /\ [][Next]_vars

-----------------------------------------------------------------------------
\* The orders that rest on a side of a book at a price.
RestingAt(key, side, price) ==
    {ref \in Resting(key) :
        BookAt(key).orders[ref].side = side /\ BookAt(key).orders[ref].price = price}

SharesAt(key, side, price) ==
    MapThenSumSet(LAMBDA ref : BookAt(key).orders[ref].shares, RestingAt(key, side, price))

\* The levels of every book are what its orders add up to: a level exists exactly
\* where an order rests, its quantity is the sum of their shares, its count their
\* number. add_to_level and remove_from_level keep them step by step.
LevelsMatchOrders ==
    \A key \in BookKeys, side \in Side, price \in Price4 :
        LET resting == RestingAt(key, side, price)
            levels == BookAt(key).levels[side] IN
        IF resting = {} THEN price \notin DOMAIN levels
        ELSE /\ price \in DOMAIN levels
             /\ levels[price] = [quantity |-> SharesAt(key, side, price),
                                 order_count |-> Cardinality(resting)]

\* The directory, its index and the books agree: the index lists every instrument
\* exactly once, under its stock, and a book belongs to a listed instrument and
\* has its stock, however often instruments are listed again and whatever order
\* the messages come in.
DirectorySound ==
    LET instruments == market.directory.instruments IN
    /\ \A symbol \in StockSymbol :
         LET index == market.directory.symbol_index[symbol] IN
         /\ \A j, k \in DOMAIN index : index[j] = index[k] => j = k
         /\ \A key \in Keys :
              (\E k \in DOMAIN index : index[k] = key)
                <=> key \in DOMAIN instruments /\ instruments[key].stock = symbol
    /\ \A key \in BookKeys :
         /\ key \in DOMAIN instruments
         /\ BookAt(key).key = key /\ BookAt(key).stock = instruments[key].stock

\* What the best quote of a listed instrument should be, from its orders alone.
Quotable(symbol, side) ==
    {make_quote(key, [price |-> price, quantity |-> SharesAt(key, side, price),
                      order_count |-> Cardinality(RestingAt(key, side, price))]) :
        <<key, price>> \in
            {kp \in BookKeys \X Price4 :
                /\ market.directory.instruments[kp[1]].stock = symbol
                /\ RestingAt(kp[1], side, kp[2]) # {}}}

\* One quote beats another: by price, then by size, then by the smaller venue id.
Beats(q, r, side) ==
    \/ (IF side = "buy" THEN q.price > r.price ELSE q.price < r.price)
    \/ q.price = r.price /\ q.quantity > r.quantity
    \/ q.price = r.price /\ q.quantity = r.quantity /\ q.key.venue_id < r.key.venue_id

\* The best bid and offer of a symbol, read through the index, the venues and the
\* levels, is a best one among the orders that rest on all venues: none is missed,
\* none is counted that has gone, and ties go to size and then to the venue.
BboIsBest ==
    \A symbol \in StockSymbol, side \in Side :
        LET bbo == get(market, symbol, side)
            quotable == Quotable(symbol, side) IN
        IF quotable = {} THEN bbo = Absent
        ELSE bbo \in quotable /\ \A quote \in quotable : ~Beats(quote, bbo, side)

\* The orders of an instrument, none where it has no book.
OrdersAt(m, key) ==
    IF key.venue_id \in DOMAIN m.venues /\ key.stock_locate \in DOMAIN m.venues[key.venue_id]
    THEN m.venues[key.venue_id][key.stock_locate].orders
    ELSE [ref \in OrderReferenceNumber |-> Absent]

\* decode_message returns no replace to reference number 0.
UndecodableReplace ==
    \E key \in Keys : \E m \in Messages[key] :
        m.type = "replace" /\ m.new_order_reference_number = 0 /\ Apply(key.venue_id, m)

RefusedKeepsOrders ==
    refused' =>
        \/ /\ market'.directory = market.directory
           /\ \A key \in Keys : OrdersAt(market', key) = OrdersAt(market, key)
        \/ UndecodableReplace

\* A message that is refused loses and changes no order and no listing, though
\* it may have created an empty book: in particular a replace whose new order is
\* refused does not lose the old one. The one exception is a replace to reference
\* number 0, which the ITCH decoder never returns.
RefusedLeavesMarket == [][RefusedKeepsOrders]_vars

=============================================================================
