---------------------------- MODULE MarketTypes ----------------------------
(***************************************************************************)
(* The values that the instrument directory, the order books and the       *)
(* market-data path share: the integer types of itch_types.hpp by their    *)
(* largest value, venue ids, instrument keys, and the ITCH messages, each  *)
(* reduced to the fields the books and the directory read.                 *)
(***************************************************************************)
EXTENDS Integers

CONSTANTS
    MaxReference,    \* 2^64 - 1
    MaxShares,       \* 2^32 - 1
    MaxPrice,        \* 2^32 - 1
    MaxLocate,       \* 2^16 - 1
    MaxVenueId,      \* 2^16 - 1
    StockSymbol,     \* the symbols messages carry
    Listings,        \* what else a StockDirectoryMessage says of an instrument
    TradingState     \* the trading states of a StockTradingActionMessage

ASSUME MarketTypesAssumption ==
    /\ MaxReference \in Nat /\ MaxShares \in Nat /\ MaxPrice \in Nat
    /\ MaxLocate \in Nat /\ MaxVenueId \in Nat

OrderReferenceNumber == 0 .. MaxReference

Shares == 0 .. MaxShares

Price4 == 0 .. MaxPrice

StockLocate == 0 .. MaxLocate

VenueId == 0 .. MaxVenueId

Side == {"buy", "sell"}

is_valid_order_reference_number(ref) == ref > 0

is_valid_shares(shares) == shares > 0

is_valid_price4(price) == price > 0

is_valid_venue_id(venue_id) == venue_id # 0

InstrumentKey == [venue_id : VenueId, stock_locate : StockLocate]

KeyOf(venue_id, stock_locate) == [venue_id |-> venue_id, stock_locate |-> stock_locate]

is_valid_instrument_key(key) == is_valid_venue_id(key.venue_id) /\ key.stock_locate # 0

\* The header of a message: timestamp_ok stands for is_valid_timestamp_ns.
Header == [stock_locate : StockLocate, timestamp_ok : BOOLEAN]

\* A message has the type of its handler: add is AddOrderNoMpidMessage and
\* AddOrderWithMpidMessage; reduce is OrderExecutedMessage,
\* OrderExecutedWithPriceMessage and OrderCancelMessage, with the shares executed
\* or cancelled; other is a system event, a trade or a broken trade.
BookMessage ==
    [type : {"add"}, header : Header, order_reference_number : OrderReferenceNumber,
     side : Side, shares : Shares, stock : StockSymbol, price : Price4]
      \cup
    [type : {"reduce"}, header : Header,
     order_reference_number : OrderReferenceNumber, shares : Shares]
      \cup
    [type : {"delete"}, header : Header, order_reference_number : OrderReferenceNumber]
      \cup
    [type : {"replace"}, header : Header,
     original_order_reference_number : OrderReferenceNumber,
     new_order_reference_number : OrderReferenceNumber, shares : Shares, price : Price4]

\* StockDirectoryMessage and StockTradingActionMessage.
DirectoryMessage ==
    [type : {"stock_directory"}, header : Header, stock : StockSymbol,
     listing : Listings]
      \cup
    [type : {"stock_trading_action"}, header : Header, stock : StockSymbol,
     trading_state : TradingState]

OtherMessage == [type : {"other"}, header : Header]

=============================================================================
