----------------------------- MODULE VenueBooks -----------------------------
(***************************************************************************)
(* The receiving side of the market data: the instrument directory, one    *)
(* VenueBook per venue with one SymbolOrderBook per instrument             *)
(* (src/book/venue_book.cpp), the MultiVenueBook that holds the venues     *)
(* (src/book/multi_venue_book.cpp), the best bid and offer of a symbol     *)
(* over all venues (src/bbo/normalized_bbo.cpp), and the routing of a      *)
(* message to one of them (src/replay/itch_replay_apply.cpp).              *)
(*                                                                         *)
(* A market is a record: directory, and venues, a map from venue id to the *)
(* venue's map from stock locate to book. The operations are operators on  *)
(* it, so that a packet can apply several messages in one step (Feed);     *)
(* MarketBooks is the state machine that applies them one at a time.       *)
(***************************************************************************)
EXTENDS InstrumentDirectory, SymbolOrderBook, SequencesExt

EmptyMarket == [directory |-> EmptyDirectory, venues |-> [venue_id \in {} |-> Absent]]

BooksOf(market, venue_id) == market.venues[venue_id]

\* The books of a venue with one of them set.
SetBook(books, stock_locate, book) ==
    [l \in DOMAIN books \cup {stock_locate} |->
        IF l = stock_locate THEN book ELSE books[l]]

NoVenueBooks == [stock_locate \in {} |-> Absent]

Outcome(market, error) == [error |-> error, market |-> market]

\* MultiVenueBook::add_venue.
add_venue(market, venue_id) ==
    IF ~is_valid_venue_id(venue_id) THEN Outcome(market, "invalid_argument")
    ELSE IF venue_id \in DOMAIN market.venues THEN Outcome(market, "duplicate")
    ELSE Outcome([market EXCEPT !.venues =
                    [v \in DOMAIN @ \cup {venue_id} |->
                        IF v = venue_id THEN NoVenueBooks ELSE @[v]]], "ok")

\* VenueBook::get_or_create_book.
get_or_create_book(market, key) ==
    LET books == BooksOf(market, key.venue_id) IN
    IF key.stock_locate \in DOMAIN books THEN books[key.stock_locate]
    ELSE NewBook(key, market.directory.instruments[key].stock)

\* VenueBook::apply, behind MultiVenueBook::apply. The book is created before it
\* can refuse the message.
apply_to_venue(market, venue_id, m) ==
    LET key == KeyOf(venue_id, m.header.stock_locate)
        done == apply_to_book(get_or_create_book(market, key), m) IN
    IF venue_id \notin DOMAIN market.venues THEN Outcome(market, "not_found")
    ELSE IF ~contains(market.directory, key) THEN Outcome(market, "not_found")
    ELSE Outcome([market EXCEPT !.venues[venue_id] =
                    SetBook(@, key.stock_locate, done.book)], done.error)

\* ItchReplayApplier::apply_message.
apply_message(market, venue_id, m) ==
    LET listed == IF m.type = "stock_directory"
                  THEN apply_stock_directory(market.directory, venue_id, m)
                  ELSE apply_stock_trading_action(market.directory, venue_id, m) IN
    IF m.type \in {"stock_directory", "stock_trading_action"}
    THEN Outcome([market EXCEPT !.directory = listed.directory], listed.error)
    ELSE IF m.type = "other" THEN Outcome(market, "ok")
    ELSE apply_to_venue(market, venue_id, m)

-----------------------------------------------------------------------------
\* A Quote, without the symbol it was asked for.
make_quote(key, level) ==
    [key |-> key, price |-> level.price, quantity |-> level.quantity,
     order_count |-> level.order_count]

\* MultiVenueBook::best_bid and best_ask, with VenueBook's: the best level of an
\* instrument, Absent where its venue, its book or the side is missing.
best_quote(market, key, side) ==
    LET books == BooksOf(market, key.venue_id)
        level == IF side = "buy" THEN best_bid(books[key.stock_locate])
                 ELSE best_ask(books[key.stock_locate]) IN
    IF \/ key.venue_id \notin DOMAIN market.venues
       \/ key.stock_locate \notin DOMAIN books
       \/ level = Absent
       \/ ~contains(market.directory, key)
    THEN Absent
    ELSE make_quote(key, level)

\* MultiVenueBook::bids and asks.
quotes(market, symbol, side) ==
    SelectSeq([k \in DOMAIN instruments_for_symbol(market.directory, symbol) |->
                  best_quote(market, instruments_for_symbol(market.directory, symbol)[k], side)],
              LAMBDA quote : quote # Absent)

\* Mutant of is_better: the venue is compared before the quantity.
is_better_venue_first(candidate, current, side) ==
    IF candidate.price # current.price
    THEN IF side = "buy" THEN candidate.price > current.price
         ELSE candidate.price < current.price
    ELSE IF candidate.key.venue_id # current.key.venue_id
    THEN candidate.key.venue_id < current.key.venue_id
    ELSE candidate.quantity > current.quantity

\* is_better_bid and is_better_ask.
is_better(candidate, current, side) ==
    IF candidate.price # current.price
    THEN IF side = "buy" THEN candidate.price > current.price
         ELSE candidate.price < current.price
    ELSE IF candidate.quantity # current.quantity
    THEN candidate.quantity > current.quantity
    ELSE candidate.key.venue_id < current.key.venue_id

\* NormalizedBboView::get, one side of it.
get(market, symbol, side) ==
    FoldLeft(LAMBDA best, quote :
                 IF best = Absent THEN quote
                 ELSE IF is_better(quote, best, side) THEN quote ELSE best,
             Absent, quotes(market, symbol, side))

=============================================================================
