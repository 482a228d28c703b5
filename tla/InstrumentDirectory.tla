------------------------ MODULE InstrumentDirectory ------------------------
(***************************************************************************)
(* InstrumentDirectory (src/instrument/instrument_directory.cpp): what is  *)
(* known of each instrument, keyed by the venue and the venue's number for *)
(* it, and an index from a symbol to the instruments that carry it. The    *)
(* directory is a record of the class's two maps.                          *)
(***************************************************************************)
EXTENDS MarketTypes, Sequences

\* SymbolTradingStatus: unknown until a trading action is applied.
SymbolTradingStatus == TradingState \cup {"unknown"}

\* listing: market_category to inverse_indicator.
InstrumentMetadata ==
    [stock : StockSymbol, listing : Listings, trading_status : SymbolTradingStatus]

\* instruments is instruments_, whose domain are the keys it holds;
\* symbol_index is symbol_index_, where a symbol it lacks has no instruments.
EmptyDirectory ==
    [instruments |-> [key \in {} |-> 0],
     symbol_index |-> [symbol \in StockSymbol |-> <<>>]]

contains(directory, key) == key \in DOMAIN directory.instruments

find(directory, venue_id, stock_locate) ==
    directory.instruments[KeyOf(venue_id, stock_locate)]

instruments_for_symbol(directory, symbol) == directory.symbol_index[symbol]

\* is_valid_stock_directory_message and is_valid_stock_trading_action_message:
\* the header must name an instrument and a time of day.
ValidMessage(m) == m.header.stock_locate # 0 /\ m.header.timestamp_ok

Refuse(directory, error) == [error |-> error, directory |-> directory]

\* The directory with an instrument's metadata set.
SetMetadata(directory, key, metadata) ==
    [directory EXCEPT !.instruments =
        [k \in DOMAIN @ \cup {key} |-> IF k = key THEN metadata ELSE @[k]]]

\* Mutant of list_instrument: an instrument listed again is indexed again.
list_instrument_indexed_again(directory, key, m) ==
    LET relisted == contains(directory, key)
        status == IF relisted THEN directory.instruments[key].trading_status
                  ELSE "unknown"
        metadata == [stock |-> m.stock, listing |-> m.listing,
                     trading_status |-> status] IN
    [SetMetadata(directory, key, metadata) EXCEPT
        !.symbol_index[m.stock] = Append(@, key)]

\* An instrument listed again has its listing updated and keeps its trading
\* status; a new one is indexed under its symbol.
list_instrument(directory, key, m) ==
    IF contains(directory, key)
    THEN SetMetadata(directory, key,
                     [directory.instruments[key] EXCEPT !.listing = m.listing])
    ELSE [SetMetadata(directory, key,
                      [stock |-> m.stock, listing |-> m.listing,
                       trading_status |-> "unknown"]) EXCEPT
            !.symbol_index[m.stock] = Append(@, key)]

\* apply, for a StockDirectoryMessage: the number of a listed instrument cannot
\* be given to another stock.
apply_stock_directory(directory, venue_id, m) ==
    LET key == KeyOf(venue_id, m.header.stock_locate) IN
    IF ~is_valid_venue_id(venue_id) \/ ~ValidMessage(m)
    THEN Refuse(directory, "invalid_argument")
    ELSE IF contains(directory, key) /\ directory.instruments[key].stock # m.stock
    THEN Refuse(directory, "invalid_state")
    ELSE [error |-> "ok", directory |-> list_instrument(directory, key, m)]

to_symbol_trading_status(trading_state) == trading_state

\* apply, for a StockTradingActionMessage.
apply_stock_trading_action(directory, venue_id, m) ==
    LET key == KeyOf(venue_id, m.header.stock_locate) IN
    IF ~is_valid_venue_id(venue_id) \/ ~ValidMessage(m)
    THEN Refuse(directory, "invalid_argument")
    ELSE IF ~contains(directory, key) THEN Refuse(directory, "not_found")
    ELSE IF directory.instruments[key].stock # m.stock
    THEN Refuse(directory, "invalid_state")
    ELSE [error |-> "ok",
          directory |-> [directory EXCEPT !.instruments[key].trading_status =
                            to_symbol_trading_status(m.trading_state)]]

=============================================================================
