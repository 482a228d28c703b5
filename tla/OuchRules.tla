----------------------------- MODULE OuchRules -----------------------------
(***************************************************************************)
(* The bounds OUCH puts on the numbers of a message                        *)
(* (include/fgep/ouch/ouch_types.hpp). The lifecycle engine, the risk      *)
(* supervisor and the gate each test them again.                           *)
(***************************************************************************)
EXTENDS Integers

CONSTANTS
    MaxUserRefNum,   \* 2^32 - 1
    QuantityLimit,   \* 1'000'000: quantities are below it
    MaxPrice,        \* 2^64 - 1
    Symbol

ASSUME OuchAssumption ==
    /\ MaxUserRefNum \in Nat
    /\ QuantityLimit \in Nat \ {0}
    /\ MaxPrice \in Nat

UserRefNum == 0 .. MaxUserRefNum

\* QuantityLimit itself stands for every larger value: all are refused alike.
Quantity == 0 .. QuantityLimit

Price4 == 0 .. MaxPrice

is_valid_user_ref_num(ref) == ref > 0

is_valid_enter_or_replace_quantity(quantity) ==
    quantity > 0 /\ quantity < QuantityLimit

is_valid_cancel_quantity(quantity) == quantity < QuantityLimit

is_valid_price4(price) == price > 0

=============================================================================
